---- MODULE Spec2Model ----
(***************************************************************************)
(* Model of the Lenso.ai browser automation backend:                       *)
(*   backend/app/browser_automation.py   BrowserAutomation                 *)
(*   backend/app/lenso_automation.py     LensoAutomation, one-shot helpers *)
(*   backend/app/api/routes/automation.py  REST handlers, active_sessions  *)
(*                                                                         *)
(* Every handler is one action.  The target site and the browser driver    *)
(* are the environment: what they answer to each call of a handler is an   *)
(* input of the action, drawn from a bounded set.  The browser-level calls *)
(* a handler issues are recorded, in order, in last.calls.                 *)
(***************************************************************************)
EXTENDS Integers, Sequences, FiniteSets, TLC

VARIABLES
    objs,             \* LensoAutomation instances by id: their handle fields
    active_sessions,  \* keys of the module-level dict active_sessions
    last,             \* the last operation: request, environment, outcome
    nops,             \* number of operations performed so far
    requests,         \* session requests being handled, each at an await
    Page,             \* rows of the table "Page" by id
    pages,            \* context.pages of one session: its open tabs, in order
    card_loop,        \* where the card loop of that session is with its tabs
    temp_uploads      \* the files of the directory temp_uploads, by name

vars == <<objs, active_sessions, last, nops, requests, Page, pages, card_loop,
          temp_uploads>>

-----------------------------------------------------------------------------
(* Bounds of the model *)

MaxSessions == 2      \* instances created in one behaviour
MaxOps == 5           \* operations in one behaviour of Spec / SpecObject
MaxImgs == 2          \* <img> elements matched by one selector
MaxCols == 2          \* div.grid-col elements on a results page
MaxUrlsArg == 3       \* largest max_urls passed to extract
MaxCards == 3         \* cards whose destination control is clicked
MaxReqs == 2          \* session requests handled concurrently
MaxPages == 2         \* rows ever inserted into the table "Page"

-----------------------------------------------------------------------------
(* Strings that the code inspects are sequences of characters. *)

\* Python: sub in s
Contains(s, sub) ==
    \E i \in 0..(Len(s) - Len(sub)) : SubSeq(s, i + 1, i + Len(sub)) = sub

\* Python truthiness of a str | None attribute value ("" and None are falsy;
\* both are written <<>>)
Truthy(s) == s # <<>>

STR_api == <<"a", "p", "i">>
STR_lenso_ai == <<"l", "e", "n", "s", "o", ".", "a", "i">>
STR_https_lenso_ai ==
    <<"h", "t", "t", "p", "s", ":", "/", "/", "l", "e", "n", "s", "o", ".", "a", "i">>

\* src attribute values the site may serve
SrcProxy == <<"l", "e", "n", "s", "o", ".", "a", "i", "/", "a", "p", "i", "/", "1">>
SrcNoApi == <<"l", "e", "n", "s", "o", ".", "a", "i", "/", "i", "m", "g">>
SrcOther == <<"c", "d", "n", ".", "i", "o", "/", "a", "p", "i">>
SrcPool == {<<>>, SrcProxy, SrcNoApi, SrcOther}

\* the src values of the elements matched by one selector, in document order
ImgLists == UNION {[1..n -> SrcPool] : n \in 0..MaxImgs}

\* lenso_automation.py:202, the test of the list comprehension
IsProxyUrl_NoDomainTest(url) == Truthy(url) /\ Contains(url, STR_api)
IsProxyUrl(url) ==
    Truthy(url) /\ Contains(url, STR_api) /\ Contains(url, STR_lenso_ai)

RECURSIVE filtered_urls(_)
\* [url for url in image_urls if url and "api" in url and "lenso.ai" in url]
filtered_urls(image_urls) ==
    IF image_urls = <<>> THEN <<>>
    ELSE (IF IsProxyUrl(Head(image_urls)) THEN <<Head(image_urls)>> ELSE <<>>)
         \o filtered_urls(Tail(image_urls))

RECURSIVE get_all_element_attributes(_)
\* the src of every matched element, skipping the falsy ones; a failing
\* query gives the same empty list as no match
get_all_element_attributes(srcs) ==
    IF srcs = <<>> THEN <<>>
    ELSE (IF Truthy(Head(srcs)) THEN <<Head(srcs)>> ELSE <<>>)
         \o get_all_element_attributes(Tail(srcs))

-----------------------------------------------------------------------------
(* Python values returned by the engine *)

PyList(items) == [kind |-> "list", items |-> items]
PyDict(d) == [kind |-> "dict", value |-> d]
NoValue == [kind |-> "none"]

\* outcome of a call: a returned value or a raised exception, with the
\* browser-level calls issued on the way
Returned(v, calls) == [raised |-> FALSE, exc |-> "", ret |-> v, calls |-> calls]
Raised(exc, calls) == [raised |-> TRUE, exc |-> exc, ret |-> NoValue, calls |-> calls]

MB == 1024 * 1024
MaxFileMB == 10

-----------------------------------------------------------------------------
(* BrowserAutomation: the handle fields and the lifecycle *)

NoCloses == [context |-> 0, browser |-> 0, playwright |-> 0]

\* no instance with this id has been constructed
NoObj == [created |-> FALSE, user_data_dir |-> "", playwright |-> FALSE,
          browser |-> FALSE, context |-> FALSE, page |-> FALSE,
          closes |-> NoCloses, closed |-> FALSE]

DefaultProfile == "./browser_profile"
OtherProfile == "./profile_a"

\* the user_data_dir argument; None is written ""
UserDataDirArgs == {"", OtherProfile}

\* __init__: playwright, browser and context are None; page is not set.
\* History: closes counts the release calls issued on each handle, closed
\* tells that a close() has run to its end.
BrowserAutomation_init ==
    [created |-> TRUE, user_data_dir |-> DefaultProfile, playwright |-> FALSE,
     browser |-> FALSE, context |-> FALSE, page |-> FALSE,
     closes |-> NoCloses, closed |-> FALSE]

\* __init__ with user_data_dir given: "user_data_dir or './browser_profile'"
BrowserAutomation_new(user_data_dir) ==
    [BrowserAutomation_init EXCEPT
       !.user_data_dir = IF user_data_dir = "" THEN DefaultProfile
                         ELSE user_data_dir]

StartOutcomes == {"ok", "driver_fails", "launch_fails"}

\* start(): the driver, then the persistent context, then the page.
\* self.browser is never assigned.
start(o, outcome) ==
    IF outcome = "driver_fails"
    THEN [obj |-> o, raised |-> TRUE, calls |-> <<"async_playwright.start">>]
    ELSE IF outcome = "launch_fails"
    THEN [obj |-> [o EXCEPT !.playwright = TRUE], raised |-> TRUE,
          calls |-> <<"async_playwright.start", "launch_persistent_context">>]
    ELSE [obj |-> [o EXCEPT !.playwright = TRUE, !.context = TRUE, !.page = TRUE],
          raised |-> FALSE,
          calls |-> <<"async_playwright.start", "launch_persistent_context">>]

CloseFaults == {"none", "context", "playwright"}

\* one guarded release of close(): "if self.<h>: await self.<h>.<call>()".
\* st = [obj, raised, calls]; nothing more is done once a release has raised.
release(st, h, call, fault) ==
    IF st.raised \/ ~st.obj[h] THEN st
    ELSE [obj |-> [st.obj EXCEPT !.closes[h] = @ + 1],
          raised |-> (fault = h),
          calls |-> Append(st.calls, call)]

\* the end of close(): reached unless a release raised
closed_mark(st) ==
    IF st.raised THEN st ELSE [st EXCEPT !.obj.closed = TRUE]

close_DriverFirst(o, fault) ==
    closed_mark(
      release(release(release([obj |-> o, raised |-> FALSE, calls |-> <<>>],
                              "playwright", "playwright.stop", fault),
                      "browser", "browser.close", fault),
              "context", "context.close", fault))

\* close(): context, browser, driver, each only if the field is set; the
\* fields are left as they are.
close(o, fault) ==
    closed_mark(
      release(release(release([obj |-> o, raised |-> FALSE, calls |-> <<>>],
                              "context", "context.close", fault),
                      "browser", "browser.close", fault),
              "playwright", "playwright.stop", fault))

-----------------------------------------------------------------------------
(* BrowserAutomation: navigation and the primitives used by the engine *)

\* navigate_to(url): goto, then wait for network idle; nothing is caught
navigate_to(goto_ok) ==
    IF goto_ok THEN Returned(NoValue, <<"goto", "wait_for_load_state">>)
    ELSE Raised("NavigationError", <<"goto">>)

\* the cookie_selectors list (lines 91-97), as the lookups and the clicks
\* the loop issues for them
CookieLookups ==
    <<"wait_for_selector:#CybotCookiebotDialogBodyLevelButtonLevelOptinAllowAll",
      "wait_for_selector:button[id*='cookie']",
      "wait_for_selector:button[id*='consent']",
      "wait_for_selector:.cookie-accept",
      "wait_for_selector:.consent-accept">>
CookieClicks ==
    <<"click:#CybotCookiebotDialogBodyLevelButtonLevelOptinAllowAll",
      "click:button[id*='cookie']",
      "click:button[id*='consent']",
      "click:.cookie-accept",
      "click:.consent-accept">>

\* What the page answers for one selector:
\*   "timeout"       the lookup raises (no such button within 2s, or the
\*                   page is gone)
\*   "none"          the lookup returns no element
\*   "click_raises"  the button is there and element.click() raises
\*   "clicked_gone"  the click succeeds and the page goes away: the settle
\*                   wait raises
\*   "clicked"       the click and the settle wait succeed
\* a page that went away stays away: every later lookup raises
CookieEnvs ==
    {c \in [1..Len(CookieLookups) ->
              {"timeout", "none", "click_raises", "clicked_gone", "clicked"}] :
        \A j, k \in 1..Len(CookieLookups) :
            (j < k /\ c[j] = "clicked_gone") => c[k] = "timeout"}

NoBanner == [k \in 1..Len(CookieLookups) |-> "timeout"]

RECURSIVE cookie_loop_NoBreak(_, _)
cookie_loop_NoBreak(c, k) ==
    IF k > Len(c) THEN <<>>
    ELSE <<CookieLookups[k]>>
         \o (IF c[k] \in {"timeout", "none"} THEN <<>>
             ELSE IF c[k] = "click_raises" THEN <<CookieClicks[k]>>
             ELSE <<CookieClicks[k], "wait_for_timeout">>)
         \o cookie_loop_NoBreak(c, k + 1)

RECURSIVE cookie_loop(_, _)
\* the for loop of lines 99-109 from selector k on: lookup, click, settle
\* wait, break; an exception anywhere goes on to the next selector
cookie_loop(c, k) ==
    IF k > Len(c) THEN <<>>
    ELSE IF c[k] \in {"timeout", "none"}
    THEN <<CookieLookups[k]>> \o cookie_loop(c, k + 1)
    ELSE IF c[k] = "click_raises"
    THEN <<CookieLookups[k], CookieClicks[k]>> \o cookie_loop(c, k + 1)
    ELSE IF c[k] = "clicked_gone"
    THEN <<CookieLookups[k], CookieClicks[k], "wait_for_timeout">>
         \o cookie_loop(c, k + 1)
    ELSE <<CookieLookups[k], CookieClicks[k], "wait_for_timeout">>

\* handle_cookie_consent(): every failure is caught inside; returns None
handle_cookie_consent(c) == <<"handle_cookie_consent">> \o cookie_loop(c, 1)

\* What the page does with the driver calls of one primitive:
\*   "unstarted"  self.page was never set (AttributeError)
\*   "timeout"    the lookup runs out of time (TimeoutError)
\*   "none"       the lookup returns no element (None, an empty list, null)
\*   "act_raises" the element is there and the call on it raises
\*   "found"      every call succeeds
PageAnswers == {"unstarted", "timeout", "none", "act_raises", "found"}

PyBool(b) == [kind |-> "bool", value |-> b]

\* upload_file_to_input(): True once the file is set on the attached input,
\* False when the input does not attach within the timeout or anything
\* raises
upload_file_to_input(a) ==
    IF a = "found"
    THEN [ok |-> TRUE, calls |-> <<"wait_for_selector:input", "set_input_files">>]
    ELSE IF a = "act_raises"
    THEN [ok |-> FALSE, calls |-> <<"wait_for_selector:input", "set_input_files">>]
    ELSE IF a = "unstarted" THEN [ok |-> FALSE, calls |-> <<>>]
    ELSE [ok |-> FALSE, calls |-> <<"wait_for_selector:input">>]

\* the page's answer to the wait for the file input of the upload flow
InputAnswer(attached) == IF attached THEN "found" ELSE "timeout"

click_element_Unguarded(a) ==
    IF a \in {"found", "none"} THEN Returned(PyBool(a = "found"), <<>>)
    ELSE Raised("Error", <<>>)

\* click_element(): True after the click; False when there is no element
\* or anything raises (lines 157-166)
click_element(a) == Returned(PyBool(a = "found"), <<>>)

\* wait_for_element(): True when wait_for_selector returns, False when it
\* raises (lines 179-184)
wait_for_element(a) == Returned(PyBool(a \in {"found", "none"}), <<>>)

\* get_element_text(): the text of the element, None when there is no
\* element or anything raises (lines 196-203)
get_element_text(a, text) ==
    Returned(IF a = "found" THEN [kind |-> "str", value |-> text] ELSE NoValue,
             <<>>)

\* get_element_attribute(): as get_element_text (lines 216-223)
get_element_attribute(a, value) ==
    Returned(IF a = "found" THEN [kind |-> "str", value |-> value] ELSE NoValue,
             <<>>)

\* take_screenshot(): returns None whether or not the screenshot was taken
\* (lines 255-259)
take_screenshot(a) == Returned(NoValue, <<>>)

\* execute_javascript(): the value of the script, None when evaluate raises
\* (lines 272-276)
execute_javascript(a, value) ==
    Returned(IF a = "found" THEN [kind |-> "str", value |-> value] ELSE NoValue,
             <<>>)

PrimitiveNames ==
    {"upload_file_to_input", "click_element", "wait_for_element",
     "get_element_text", "get_element_attribute",
     "get_all_element_attributes", "take_screenshot", "execute_javascript"}

\* one call of a primitive on a page that answers a; srcs and text are what
\* the page holds
primitive(name, a, srcs, text) ==
    CASE name = "upload_file_to_input" ->
           Returned(PyBool(upload_file_to_input(a).ok), <<>>)
      [] name = "click_element" -> click_element(a)
      [] name = "wait_for_element" -> wait_for_element(a)
      [] name = "get_element_text" -> get_element_text(a, text)
      [] name = "get_element_attribute" -> get_element_attribute(a, text)
      [] name = "get_all_element_attributes" ->
           Returned(PyList(get_all_element_attributes(
                               IF a = "found" THEN srcs ELSE <<>>)), <<>>)
      [] name = "take_screenshot" -> take_screenshot(a)
      [] OTHER -> execute_javascript(a, text)

-----------------------------------------------------------------------------
(* LensoAutomation: upload *)

SearchUrl == "https://lenso.ai/en/results/1"

\* What the site does during the consent flow: whether the modal, the
\* perform-search button and the verify button show up in their windows, and
\* gone: the wait_for_timeout of the handler (1..4) at which the page goes
\* away, 0 when it stays.  A script that fails is swallowed by
\* execute_javascript and changes nothing here.
ConsentEnvs ==
    [modal : BOOLEAN, perform_btn : BOOLEAN, verify_btn : BOOLEAN, gone : 0..4]

consent_steps_VerifyFirst(c) ==
    <<[call |-> "wait_for_timeout", wait |-> 1],
      [call |-> "js:click:privacy-policy", wait |-> 0],
      [call |-> "wait_for_timeout", wait |-> 2],
      [call |-> "js:click:facial-search-consent", wait |-> 0],
      [call |-> "wait_for_timeout", wait |-> 3],
      [call |-> "wait_for_element:button.verify-btn", wait |-> 0]>>
    \o (IF c.verify_btn
        THEN <<[call |-> "js:click:button.verify-btn", wait |-> 0]>>
        ELSE <<>>)
    \o <<[call |-> "wait_for_element:button.perfom-search-btn", wait |-> 0]>>
    \o (IF c.perform_btn
        THEN <<[call |-> "js:click:button.perfom-search-btn", wait |-> 0]>>
        ELSE <<>>)

\* the steps of handle_privacy_consent after the modal was seen (lines
\* 131-165), in order: [call, wait: which wait_for_timeout of the handler
\* it is, 0 for another call]
consent_steps(c) ==
    <<[call |-> "wait_for_timeout", wait |-> 1],
      [call |-> "js:click:privacy-policy", wait |-> 0],
      [call |-> "wait_for_timeout", wait |-> 2],
      [call |-> "js:click:facial-search-consent", wait |-> 0],
      [call |-> "wait_for_timeout", wait |-> 3],
      [call |-> "wait_for_element:button.perfom-search-btn", wait |-> 0]>>
    \o (IF ~c.perform_btn THEN <<>>
        ELSE <<[call |-> "js:click:button.perfom-search-btn", wait |-> 0],
               [call |-> "wait_for_timeout", wait |-> 4],
               [call |-> "wait_for_element:button.verify-btn", wait |-> 0]>>
             \o (IF c.verify_btn
                 THEN <<[call |-> "js:click:button.verify-btn", wait |-> 0]>>
                 ELSE <<>>))

RECURSIVE run_steps(_, _)
\* the calls issued up to and including the wait that raises, if one does
run_steps(steps, gone) ==
    IF steps = <<>> THEN <<>>
    ELSE IF Head(steps).wait = gone /\ gone > 0 THEN <<Head(steps).call>>
    ELSE <<Head(steps).call>> \o run_steps(Tail(steps), gone)

\* handle_privacy_consent(): every failure is caught inside (a screenshot is
\* taken); returns None
handle_privacy_consent(c) ==
    <<"handle_privacy_consent", "wait_for_element:div.manage-consents-modal">>
    \o (IF ~c.modal THEN <<>>
        ELSE LET steps == consent_steps(c)
                 done == run_steps(steps, c.gone)
             IN done \o (IF Len(done) < Len(steps)
                         THEN <<"screenshot:consent_modal_error.png">>
                         ELSE <<>>))

\* the page went away during the consent flow
ConsentPageGone(c) ==
    c.modal /\ Len(run_steps(consent_steps(c), c.gone)) < Len(consent_steps(c))

collect_result_images_NoContainerCheck(pg) ==
    LET image_urls == IF get_all_element_attributes(pg.specific) = <<>>
                      THEN get_all_element_attributes(pg.loose)
                      ELSE get_all_element_attributes(pg.specific)
    IN [ret |-> filtered_urls(image_urls),
        calls |-> <<"wait_for_element:div.search-results", "wait_for_timeout",
                    "query:div.search-results img.result-image">>]

\* collect_result_images() on a page pg =
\*   [container, settle_raises, specific, loose]
collect_result_images(pg) ==
    LET w == <<"wait_for_element:div.search-results">>
    IN
    IF ~pg.container
    THEN [ret |-> <<>>, calls |-> w \o <<"screenshot:no_results_container.png">>]
    ELSE IF pg.settle_raises
    THEN [ret |-> <<>>,
          calls |-> w \o <<"wait_for_timeout", "screenshot:collection_error.png">>]
    ELSE
      LET first == get_all_element_attributes(pg.specific)
          image_urls == IF first = <<>>
                        THEN get_all_element_attributes(pg.loose)
                        ELSE first
          filtered == filtered_urls(image_urls)
      IN [ret |-> filtered,
          calls |-> w \o <<"wait_for_timeout", "query:div.search-results img.result-image">>
                    \o (IF first = <<>> THEN <<"query:img.result-image">> ELSE <<>>)
                    \o (IF filtered = <<>>
                        THEN <<"screenshot:no_results_error.png">> ELSE <<>>)]

upload_with_fallback_RetryTwice(e) ==
    LET u1 == upload_file_to_input(InputAnswer(e.input1))
        u2 == upload_file_to_input(InputAnswer(e.input2))
    IN IF u1.ok THEN [ok |-> TRUE, raised |-> FALSE, calls |-> u1.calls]
       ELSE [ok |-> u2.ok, raised |-> FALSE,
             calls |-> u1.calls \o <<"click:drag-area", "wait_for_timeout">>
                       \o (IF u2.ok THEN u2.calls ELSE u2.calls \o u2.calls)]

\* lines 65-72: set the file on the input; when that fails, click the drag
\* area, wait, and try the input once more.  [ok: upload_success, raised:
\* the wait raised, calls]
upload_with_fallback(e) ==
    LET u1 == upload_file_to_input(InputAnswer(e.input1))
        u2 == upload_file_to_input(InputAnswer(e.input2))
    IN IF u1.ok THEN [ok |-> TRUE, raised |-> FALSE, calls |-> u1.calls]
       ELSE IF e.retry_wait_raises
       THEN [ok |-> FALSE, raised |-> TRUE,
             calls |-> u1.calls \o <<"click:drag-area", "wait_for_timeout">>]
       ELSE [ok |-> u2.ok, raised |-> FALSE,
             calls |-> u1.calls \o <<"click:drag-area", "wait_for_timeout">>
                       \o u2.calls]

consent_branch_Always(consent_modal_found, c) ==
    [calls |-> handle_privacy_consent(c) \o <<"wait_for_timeout">>,
     raised |-> ConsentPageGone(c)]

\* lines 88-96: the consent handler and the longer wait when the modal was
\* detected (free account), the shorter wait alone otherwise (premium)
\* [calls, raised: the wait of the branch raised, which it does on a page
\* that went away during the consent flow]
consent_branch(consent_modal_found, c) ==
    IF consent_modal_found
    THEN [calls |-> handle_privacy_consent(c) \o <<"wait_for_timeout">>,
          raised |-> ConsentPageGone(c)]
    ELSE [calls |-> <<"wait_for_timeout">>, raised |-> FALSE]

\* the try block of LensoAutomation.upload_image_to_lenso (lines 40-113)
upload_try(image, e) ==
    IF ~image.exists THEN Raised("FileNotFoundError", <<>>)
    ELSE IF image.size > MaxFileMB * MB THEN Raised("ValueError", <<>>)
    ELSE
      LET nav == navigate_to(e.goto_ok) IN
      IF nav.raised THEN nav
      ELSE
        LET c1 == nav.calls \o handle_cookie_consent(e.cookies)
                  \o <<"wait_for_element:upload_area">>
        IN
        IF ~e.upload_area THEN Returned(PyList(<<>>), c1)
        ELSE
          LET up == upload_with_fallback(e)
              upload_success == up.ok
              c2 == c1 \o up.calls
          IN
          IF up.raised THEN Raised("TargetClosedError", c2)
          ELSE IF ~upload_success THEN Returned(PyList(<<>>), c2)
          ELSE IF e.wait_raises
          THEN Raised("TargetClosedError", Append(c2, "wait_for_timeout"))
          ELSE
            LET c3 == c2 \o <<"wait_for_timeout",
                              "wait_for_element:div.manage-consents-modal">>
                cb == consent_branch(e.consent_modal, e.consent)
                c4 == c3 \o cb.calls
                col == collect_result_images(e.page)
                image_urls == col.ret
            IN IF cb.raised THEN Raised("TargetClosedError", c4)
               ELSE
               Returned(PyDict([image_urls |-> image_urls,
                                search_url |-> SearchUrl,
                                count |-> Len(image_urls)]),
                        c4 \o col.calls \o <<"screenshot:lenso_results.png">>)

LensoAutomation_upload_image_to_lenso_Reraise(image, e) == upload_try(image, e)

\* LensoAutomation.upload_image_to_lenso: the try block and its
\* "except Exception" handler (lines 115-118)
LensoAutomation_upload_image_to_lenso(image, e) ==
    LET t == upload_try(image, e) IN
    IF t.raised
    THEN Returned(PyList(<<>>), Append(t.calls, "screenshot:lenso_error.png"))
    ELSE t

\* the module-level upload_image_to_lenso: "async with LensoAutomation(...)"
\* starts a fresh instance, runs the method, and closes on exit.
\* [out: what the caller gets, engine: what the method returned]
upload_image_to_lenso(image, e) ==
    LET s == start(BrowserAutomation_init, e.start) IN
    IF s.raised
    THEN [out |-> Raised("StartError", s.calls), engine |-> Returned(NoValue, <<>>),
          entered |-> FALSE]
    ELSE
      LET m == LensoAutomation_upload_image_to_lenso(image, e)
          c == close(s.obj, e.close_fault)
          calls == s.calls \o m.calls \o c.calls
      IN [out |-> IF c.raised THEN Raised("CloseError", calls)
                  ELSE IF m.raised THEN Raised(m.exc, calls)
                  ELSE Returned(m.ret, calls),
          engine |-> m, entered |-> TRUE]

-----------------------------------------------------------------------------
(* LensoAutomation: extraction from an existing results page *)

Min(a, b) == IF a <= b THEN a ELSE b
Max(a, b) == IF a >= b THEN a ELSE b

\* Python s[:k]: a negative k counts from the end
PySliceTo(s, k) ==
    IF k >= 0 THEN SubSeq(s, 1, Min(k, Len(s)))
    ELSE SubSeq(s, 1, Max(Len(s) + k, 0))

\* class attribute values of div.search-results-list; <<>> is None
STR_locked == <<"l", "o", "c", "k", "e", "d">>
ClsOpen == <<"l", "i", "s", "t">>
ClsLocked == <<"l", "i", "s", "t", " ", "l", "o", "c", "k", "e", "d">>

\* what the results list answers to _unlock_search_results: its class at the
\* first and at the second read, and the call that raises, if any
LockEnvs ==
    {[cls1 |-> <<>>, cls2 |-> <<>>, fault |-> "attr"]}
    \cup {[cls1 |-> c, cls2 |-> c, fault |-> "none"] : c \in {<<>>, ClsOpen}}
    \cup {[cls1 |-> ClsLocked, cls2 |-> c, fault |-> "none"]
          : c \in {<<>>, ClsOpen, ClsLocked}}
    \cup {[cls1 |-> ClsLocked, cls2 |-> ClsLocked, fault |-> "click"]}

DestUrl == "https://destination.example/page"
BlankUrl == "about:blank"
TabUrls == {DestUrl, BlankUrl, ""}

\* what the globe button does: kind, and the URL of the tab it opens
GlobeEnvs ==
    {[kind |-> k, tab_url |-> ""]
     : k \in {"absent", "click_raises", "no_tab", "load_raises"}}
    \cup {[kind |-> "tab", tab_url |-> u] : u \in TabUrls}

ThumbSrc == "https://lenso.ai/api/thumb"
DomainText == "destination.example"
TitleText == "Title"
ElementKinds == {"absent", "empty", "text"}
ThumbKinds == {"absent", "no_src", "src"}

\* what the site does when one card is opened: a card whose modal holds an
\* unlocked list with one complete result whose globe button opens a tab
BaseSite == [click_ok |-> TRUE, settle_ok |-> TRUE, list |-> TRUE,
             lock |-> [cls1 |-> ClsOpen, cls2 |-> ClsOpen, fault |-> "none"],
             result |-> TRUE, thumb |-> "src", domain |-> "text",
             title |-> "text",
             globe |-> [kind |-> "tab", tab_url |-> DestUrl],
             escape_ok |-> TRUE]

\* a card whose click raises, one whose settle delay raises after the click,
\* and every modal content for a card that opens
CardSites ==
    {[BaseSite EXCEPT !.click_ok = FALSE], [BaseSite EXCEPT !.settle_ok = FALSE]}
    \cup {[BaseSite EXCEPT !.list = l, !.lock = k, !.result = r, !.thumb = t,
                           !.domain = d, !.title = ti, !.globe = g,
                           !.escape_ok = x]
          : l \in BOOLEAN, k \in LockEnvs, r \in BOOLEAN, t \in ThumbKinds,
            d \in ElementKinds, ti \in ElementKinds, g \in GlobeEnvs,
            x \in BOOLEAN}

\* the cards a results grid is made of, by name
CardKinds == {"ok", "no_tab", "click_fails", "no_list", "settle_fails"}

CardSite(kind) ==
    CASE kind = "ok" -> BaseSite
      [] kind = "no_tab" ->
           [BaseSite EXCEPT !.globe = [kind |-> "no_tab", tab_url |-> ""]]
      [] kind = "click_fails" -> [BaseSite EXCEPT !.click_ok = FALSE]
      [] kind = "no_list" -> [BaseSite EXCEPT !.list = FALSE]
      [] kind = "settle_fails" -> [BaseSite EXCEPT !.settle_ok = FALSE]

RECURSIVE FlattenFrom(_, _)
\* result_cards.extend(cards) for each column from c on: a card is its
\* position <<column, row>> and what the site does when it is opened
FlattenFrom(grid, c) ==
    IF c > Len(grid) THEN <<>>
    ELSE [r \in 1..Len(grid[c]) |-> [id |-> <<c, r>>, kind |-> grid[c][r]]]
         \o FlattenFrom(grid, c + 1)

\* _get_result_cards(): the cards of every div.grid-col, flattened; a
\* screenshot when there is no column or no card
get_result_cards(grid) ==
    LET result_cards == FlattenFrom(grid, 1) IN
    IF Len(grid) = 0
    THEN [ret |-> <<>>,
          calls |-> <<"query:div.grid-col", "screenshot:no_results_error.png">>]
    ELSE IF Len(result_cards) = 0
    THEN [ret |-> <<>>,
          calls |-> <<"query:div.grid-col", "query:div.result-card",
                      "screenshot:no_results_error.png">>]
    ELSE [ret |-> result_cards,
          calls |-> <<"query:div.grid-col", "query:div.result-card">>]

PyStr(v) == [kind |-> "str", value |-> v]

\* Python "not v" for a str | None
Falsy(v) == v.kind = "none" \/ v.value = ""

unlock_search_results_ClickAlways(lock) ==
    IF lock.fault = "attr" THEN <<"list.get_attribute:class">>
    ELSE IF lock.fault = "click" THEN <<"list.get_attribute:class", "list.click">>
    ELSE <<"list.get_attribute:class", "list.click", "wait_for_timeout",
           "list.get_attribute:class">>

\* _unlock_search_results(): read the class; when it contains "locked",
\* click once, wait and read the class again; every exception is caught.
\* Returns None: only the calls matter.
unlock_search_results(lock) ==
    IF lock.fault = "attr" THEN <<"list.get_attribute:class">>
    ELSE IF Truthy(lock.cls1) /\ Contains(lock.cls1, STR_locked)
    THEN IF lock.fault = "click"
         THEN <<"list.get_attribute:class", "list.click">>
         ELSE <<"list.get_attribute:class", "list.click", "wait_for_timeout",
                "list.get_attribute:class">>
    ELSE <<"list.get_attribute:class">>

\* "await el.text_content() if el else 'Unknown'"
text_or_unknown(element, text) ==
    IF element = "absent" THEN "Unknown"
    ELSE IF element = "empty" THEN "" ELSE text

extract_result_info_ThumbFallback(site) ==
    [ret |-> PyDict([domain |-> text_or_unknown(site.domain, DomainText),
                     title |-> text_or_unknown(site.title, TitleText),
                     image_url |-> IF site.thumb = "src" THEN ThumbSrc
                                   ELSE "Unknown"]),
     calls |-> <<"result.query:.image-thumbnail img", "result.query:p.domain-name",
                 "result.query:p.title">>]

\* _extract_result_info(): None without a thumbnail or without its src;
\* domain and title are the text of their element, "Unknown" without one
extract_result_info(site) ==
    IF site.thumb = "absent"
    THEN [ret |-> NoValue, calls |-> <<"result.query:.image-thumbnail img">>]
    ELSE IF site.thumb = "no_src"
    THEN [ret |-> NoValue,
          calls |-> <<"result.query:.image-thumbnail img", "thumb.get_attribute:src">>]
    ELSE [ret |-> PyDict([domain |-> text_or_unknown(site.domain, DomainText),
                          title |-> text_or_unknown(site.title, TitleText),
                          image_url |-> ThumbSrc]),
          calls |-> <<"result.query:.image-thumbnail img", "thumb.get_attribute:src",
                      "result.query:p.domain-name", "result.query:p.title">>]

click_globe_button_NoTabCheck(globe) ==
    [ret |-> PyStr(IF globe.kind = "tab" THEN globe.tab_url ELSE SearchUrl),
     calls |-> <<"result.query:div.actions button", "globe.click",
                 "wait_for_timeout">>]

\* _click_globe_button(): click, wait, and when context.pages has grown,
\* the URL of the new page, which is then closed; None otherwise
click_globe_button(globe) ==
    LET q == <<"result.query:div.actions button">> IN
    IF globe.kind = "absent" THEN [ret |-> NoValue, calls |-> q]
    ELSE IF globe.kind = "click_raises"
    THEN [ret |-> NoValue, calls |-> q \o <<"globe.click">>]
    ELSE IF globe.kind = "no_tab"
    THEN [ret |-> NoValue, calls |-> q \o <<"globe.click", "wait_for_timeout">>]
    ELSE IF globe.kind = "load_raises"
    THEN [ret |-> NoValue,
          calls |-> q \o <<"globe.click", "wait_for_timeout",
                           "new_page.wait_for_load_state">>]
    ELSE [ret |-> PyStr(globe.tab_url),
          calls |-> q \o <<"globe.click", "wait_for_timeout",
                           "new_page.wait_for_load_state", "new_page.close">>]

\* _extract_url_from_modal(): the results list, the unlock, the first
\* result, its info, then the URL of the tab the globe button opened
extract_url_from_modal(site) ==
    LET c0 == <<"query:div.search-results-list">> IN
    IF ~site.list THEN [ret |-> NoValue, calls |-> c0]
    ELSE
      LET c1 == c0 \o unlock_search_results(site.lock)
                   \o <<"list.query:div.result">>
      IN
      IF ~site.result THEN [ret |-> NoValue, calls |-> c1]
      ELSE
        LET url_info == extract_result_info(site) IN
        IF url_info.ret.kind # "dict"
        THEN [ret |-> NoValue, calls |-> c1 \o url_info.calls]
        ELSE
          LET final_url == click_globe_button(site.globe)
              c2 == c1 \o url_info.calls \o final_url.calls
          IN
          IF Falsy(final_url.ret) THEN [ret |-> NoValue, calls |-> c2]
          ELSE [ret |-> PyDict([domain |-> url_info.ret.value.domain,
                                title |-> url_info.ret.value.title,
                                image_url |-> url_info.ret.value.image_url,
                                url |-> final_url.ret.value]),
                calls |-> c2]

\* _process_result_card(): scroll, click, settle, extract, Escape, settle;
\* any exception gives None
process_result_card(site) ==
    LET c0 == <<"scrollIntoView", "wait_for_timeout", "card.click">> IN
    IF ~site.click_ok THEN [ret |-> NoValue, calls |-> c0]
    ELSE IF ~site.settle_ok
    THEN [ret |-> NoValue, calls |-> Append(c0, "wait_for_timeout")]
    ELSE LET x == extract_url_from_modal(site)
             c1 == Append(c0, "wait_for_timeout") \o x.calls
                   \o <<"press:Escape">>
         IN IF ~site.escape_ok THEN [ret |-> NoValue, calls |-> c1]
            ELSE [ret |-> x.ret, calls |-> Append(c1, "wait_for_timeout")]

NoCards == [urls |-> <<>>, calls |-> <<>>, seen |-> <<>>, trace |-> <<>>]

\* one pass of the loop body for a card whose routine returned url_data,
\* put in front of what the later passes give
loop_pass(card, url_data, rest) ==
    [urls |-> (IF url_data.ret.kind = "dict" THEN <<url_data.ret>> ELSE <<>>)
              \o rest.urls,
     calls |-> url_data.calls \o rest.calls,
     seen |-> <<card.id>> \o rest.seen,
     trace |-> <<[id |-> card.id, kind |-> card.kind,
                  ret |-> url_data.ret, calls |-> url_data.calls]>>
               \o rest.trace]

RECURSIVE process_cards_AbortOnFailure(_)
process_cards_AbortOnFailure(cards) ==
    IF cards = <<>> THEN NoCards
    ELSE CHOOSE run \in
           {loop_pass(Head(cards), url_data,
                      IF url_data.ret.kind = "dict"
                      THEN process_cards_AbortOnFailure(Tail(cards))
                      ELSE NoCards)
            : url_data \in {process_result_card(CardSite(Head(cards).kind))}}
           : TRUE

RECURSIVE process_cards(_)
\* the for loop of lines 293-296: [urls: the non-None results, calls, seen:
\* the ids of the cards handed to _process_result_card, trace: what each of
\* them returned and the calls it issued]
process_cards(cards) ==
    IF cards = <<>> THEN NoCards
    ELSE CHOOSE run \in
           {loop_pass(Head(cards), url_data, rest)
            : url_data \in {process_result_card(CardSite(Head(cards).kind))},
              rest \in {process_cards(Tail(cards))}}
           : TRUE

cards_to_process_All(result_cards, max_urls) == result_cards

\* line 289: result_cards[:min(max_urls, len(result_cards))]
cards_to_process(result_cards, max_urls) ==
    PySliceTo(result_cards, Min(max_urls, Len(result_cards)))

\* the try block of extract_urls_from_results_page (lines 272-308); what
\* the card loop gives is bound once (run), as is the outcome of the try
\* block (t) and of the method (m) in the two operators below
extract_try(results_url, max_urls, e) ==
    LET nav == navigate_to(e.goto_ok) IN
    IF nav.raised THEN [out |-> nav, seen |-> <<>>, trace |-> <<>>]
    ELSE
      LET c1 == nav.calls \o handle_cookie_consent(e.cookies)
                \o <<"wait_for_timeout">> IN
      IF e.wait_raises
      THEN [out |-> Raised("TargetClosedError", c1), seen |-> <<>>,
            trace |-> <<>>]
      ELSE
        LET g == get_result_cards(e.grid) IN
        IF g.ret = <<>>
        THEN [out |-> Returned(PyDict([urls |-> <<>>, count |-> 0]),
                               c1 \o g.calls),
              seen |-> <<>>, trace |-> <<>>]
        ELSE
          CHOOSE t \in
            {[out |-> Returned(PyDict([urls |-> run.urls,
                                       count |-> Len(run.urls),
                                       results_url |-> results_url]),
                               c1 \o g.calls \o run.calls
                               \o <<"screenshot:extract_results.png">>),
              seen |-> run.seen, trace |-> run.trace]
             : run \in {process_cards(cards_to_process(g.ret, max_urls))}}
            : TRUE

\* LensoAutomation.extract_urls_from_results_page: the try block and its
\* "except Exception" handler (lines 310-313)
extract_urls_from_results_page(results_url, max_urls, e) ==
    CHOOSE m \in
      {IF t.out.raised
       THEN [out |-> Returned(PyDict([urls |-> <<>>, count |-> 0]),
                              Append(t.out.calls, "screenshot:extract_error.png")),
             seen |-> t.seen, trace |-> t.trace]
       ELSE t
       : t \in {extract_try(results_url, max_urls, e)}}
      : TRUE

\* the module-level extract_urls_from_results: start, method, close on exit
extract_urls_from_results(results_url, max_urls, e) ==
    LET s == start(BrowserAutomation_init, e.start) IN
    IF s.raised
    THEN [out |-> Raised("StartError", s.calls), engine |-> Returned(NoValue, <<>>),
          entered |-> FALSE, seen |-> <<>>, trace |-> <<>>]
    ELSE
      CHOOSE r \in
        {LET c == close(s.obj, e.close_fault)
             calls == s.calls \o m.out.calls \o c.calls
         IN [out |-> IF c.raised THEN Raised("CloseError", calls)
                     ELSE IF m.out.raised THEN Raised(m.out.exc, calls)
                     ELSE Returned(m.out.ret, calls),
             engine |-> m.out, entered |-> TRUE, seen |-> m.seen,
             trace |-> m.trace]
         : m \in {extract_urls_from_results_page(results_url, max_urls, e)}}
        : TRUE

-----------------------------------------------------------------------------
(* The environment: files, pages and driver behaviour, as bounded inputs *)

FileSizes == {2 * MB, MaxFileMB * MB, MaxFileMB * MB + 1, 11 * MB}
Images == {[exists |-> FALSE, size |-> 0]}
          \cup {[exists |-> TRUE, size |-> n] : n \in FileSizes}

DefaultPage == [container |-> FALSE, settle_raises |-> FALSE,
                specific |-> <<>>, loose |-> <<>>]

\* the looser selector is only read when the specific one gave nothing
PageEnvs ==
    {DefaultPage, [DefaultPage EXCEPT !.container = TRUE, !.settle_raises = TRUE],
     [DefaultPage EXCEPT !.loose = <<SrcProxy>>]}
    \cup UNION {{[container |-> TRUE, settle_raises |-> FALSE,
                  specific |-> sp, loose |-> lo]
                 : lo \in (IF get_all_element_attributes(sp) = <<>>
                           THEN ImgLists ELSE {<<>>})}
                : sp \in ImgLists}

BaseEnv == [start |-> "ok", close_fault |-> "none", goto_ok |-> TRUE,
            upload_area |-> TRUE, input1 |-> TRUE, input2 |-> FALSE,
            retry_wait_raises |-> FALSE, wait_raises |-> FALSE, consent_modal |-> FALSE,
            page |-> DefaultPage, cookies |-> NoBanner,
            consent |-> [modal |-> TRUE, perform_btn |-> TRUE,
                         verify_btn |-> FALSE, gone |-> 0]]

\* what the site answers during one upload, up to the fields never read
UploadFlows ==
    {[BaseEnv EXCEPT !.goto_ok = FALSE],
     [BaseEnv EXCEPT !.upload_area = FALSE],
     [BaseEnv EXCEPT !.input1 = FALSE],
     [BaseEnv EXCEPT !.input1 = FALSE, !.retry_wait_raises = TRUE]}
    \cup {[BaseEnv EXCEPT !.input1 = i, !.input2 = ~i, !.wait_raises = TRUE]
          : i \in BOOLEAN}
    \cup {[BaseEnv EXCEPT !.input1 = i, !.input2 = ~i, !.consent_modal = m,
                          !.page = pg]
          : i \in BOOLEAN, m \in BOOLEAN, pg \in PageEnvs}
    \cup {[BaseEnv EXCEPT !.consent_modal = TRUE, !.consent = c, !.page = pg,
                          !.cookies = b]
          : c \in ConsentEnvs,
            pg \in {DefaultPage, [DefaultPage EXCEPT !.container = TRUE,
                                                     !.specific = <<SrcProxy>>]},
            b \in {NoBanner, [NoBanner EXCEPT ![2] = "clicked"]}}

UploadEnvs ==
    {[BaseEnv EXCEPT !.start = st] : st \in StartOutcomes \ {"ok"}}
    \cup {[f EXCEPT !.close_fault = cf] : f \in UploadFlows, cf \in CloseFaults}

\* a few uploads for the behaviours that interleave many operations
SessionUploadEnvs ==
    {[BaseEnv EXCEPT !.goto_ok = FALSE],
     [BaseEnv EXCEPT !.upload_area = FALSE],
     [BaseEnv EXCEPT !.page = [DefaultPage EXCEPT !.container = TRUE,
                                                  !.specific = <<SrcProxy, SrcNoApi>>]],
     [BaseEnv EXCEPT !.consent_modal = TRUE]}

\* columns of a results grid: the kinds of their cards, top to bottom
ColumnPool == {<<>>, <<"ok">>, <<"no_tab">>, <<"click_fails">>,
               <<"ok", "no_tab">>, <<"no_tab", "ok">>, <<"click_fails", "ok">>,
               <<"no_list", "ok">>, <<"settle_fails", "ok">>}
Grids == UNION {[1..n -> ColumnPool] : n \in 0..MaxCols}

BaseExtractEnv == [start |-> "ok", close_fault |-> "none", goto_ok |-> TRUE,
                   wait_raises |-> FALSE, grid |-> <<>>, cookies |-> NoBanner]

ExtractFlows ==
    {[BaseExtractEnv EXCEPT !.goto_ok = FALSE],
     [BaseExtractEnv EXCEPT !.wait_raises = TRUE]}
    \cup {[BaseExtractEnv EXCEPT !.grid = <<<<"ok">>>>,
                                 !.cookies = [NoBanner EXCEPT ![2] = "clicked"]]}
    \cup {[BaseExtractEnv EXCEPT !.grid = g] : g \in Grids}

ExtractEnvs ==
    {[BaseExtractEnv EXCEPT !.start = st] : st \in StartOutcomes \ {"ok"}}
    \cup {[f EXCEPT !.close_fault = cf] : f \in ExtractFlows, cf \in CloseFaults}

StartsWith(s, prefix) ==
    Len(s) >= Len(prefix) /\ SubSeq(s, 1, Len(prefix)) = prefix

UrlResults == STR_https_lenso_ai \o <<"/", "r", "/", "1">>
UrlForeign == <<"h", "t", "t", "p", ":", "/", "/", "x", ".", "i", "o">>
ResultsUrls == {UrlResults, UrlForeign}

MaxUrlsArgs == (-1)..MaxUrlsArg

SessionIds == 1..MaxSessions

ReqIds == 1..MaxReqs
PageIds == 1..MaxPages

\* a request slot no request has used yet
NoRequest == [op |-> "none", id |-> 0, pc |-> "idle", status |-> 0]

\* an id of "Page" no row has had yet
NoRow == [state |-> "unused", name |-> ""]

\* tabs: the page the session works on, and the tab that the destination
\* control of card i opens, which shows URL i
MainPage == 0

\* the card loop before its first card: card is the card at hand, pc whether
\* its destination control was clicked, initial_pages the tabs recorded
\* before the click, pending the cards whose tab has yet to open
NoCardLoop == [card |-> 1, pc |-> "idle", initial_pages |-> <<>>, pending |-> {}]

\* names of uploaded files, and a name with no file under it
FileNames == {"a.jpg", "b.jpg"}
NoFile == 0

-----------------------------------------------------------------------------
(* State *)

Init ==
    /\ objs = [i \in SessionIds |-> NoObj]
    /\ active_sessions = {}
    /\ last = [op |-> "none"]
    /\ nops = 0
    /\ requests = [r \in ReqIds |-> NoRequest]
    /\ Page = [i \in PageIds |-> NoRow]
    /\ pages = <<MainPage>>
    /\ card_loop = NoCardLoop
    /\ temp_uploads = [f \in FileNames |-> NoFile]

-----------------------------------------------------------------------------
(* One-shot operations: stateless, one per behaviour of SpecEngine *)

\* a direct call of the module-level upload_image_to_lenso
UploadImage ==
    /\ nops = 0
    /\ \E image \in Images, e \in UploadEnvs :
         \E r \in {upload_image_to_lenso(image, e)} :
           last' = [op |-> "uploadImage", image |-> image, env |-> e,
                    entered |-> r.entered, engine |-> r.engine, out |-> r.out,
                    status |-> 0]
    /\ nops' = 1
    /\ UNCHANGED <<requests, Page, pages, card_loop, temp_uploads>>
    /\ UNCHANGED <<objs, active_sessions>>

\* the except clauses of upload_image_by_path (lines 103-116)
upload_by_path_status(exc) ==
    IF exc = "FileNotFoundError" THEN 404
    ELSE IF exc = "ValueError" THEN 400
    ELSE 500

\* what upload_image_by_path does with the value the function returned:
\* result.get(...) needs a dict
upload_response(out) ==
    IF out.raised THEN out
    ELSE IF out.ret.kind # "dict" THEN Raised("AttributeError", out.calls)
    ELSE out

\* POST /automation/upload-image
UploadImageByPath ==
    /\ nops = 0
    /\ \E image \in Images, e \in UploadEnvs :
         \E r \in {IF ~image.exists
                   THEN [out |-> Raised("HTTPException404", <<>>),
                         engine |-> Returned(NoValue, <<>>), entered |-> FALSE]
                   ELSE upload_image_to_lenso(image, e)} :
           \E resp \in {upload_response(r.out)} :
             last' = [op |-> "upload_image_by_path", image |-> image, env |-> e,
                      entered |-> r.entered, engine |-> r.engine, out |-> resp,
                      status |-> IF resp.raised
                                 THEN upload_by_path_status(resp.exc) ELSE 200]
    /\ nops' = 1
    /\ UNCHANGED <<requests, Page, pages, card_loop, temp_uploads>>
    /\ UNCHANGED <<objs, active_sessions>>

\* a direct call of the module-level extract_urls_from_results
ExtractUrls ==
    /\ nops = 0
    /\ \E u \in ResultsUrls, n \in MaxUrlsArgs, e \in ExtractEnvs :
         \E r \in {extract_urls_from_results(u, n, e)} :
           last' = [op |-> "extractUrls", results_url |-> u, max_urls |-> n,
                    env |-> e, entered |-> r.entered, engine |-> r.engine,
                    out |-> r.out, seen |-> r.seen, trace |-> r.trace,
                    status |-> 0]
    /\ nops' = 1
    /\ UNCHANGED <<requests, Page, pages, card_loop, temp_uploads>>
    /\ UNCHANGED <<objs, active_sessions>>

\* POST /automation/extract-urls
ExtractUrlsEndpoint ==
    /\ nops = 0
    /\ \E u \in ResultsUrls, n \in MaxUrlsArgs, e \in ExtractEnvs :
         \E r \in {IF ~StartsWith(u, STR_https_lenso_ai)
                   THEN [out |-> Raised("HTTPException400", <<>>),
                         engine |-> Returned(NoValue, <<>>), entered |-> FALSE,
                         seen |-> <<>>, trace |-> <<>>]
                   ELSE extract_urls_from_results(u, n, e)} :
           last' = [op |-> "extract_urls_endpoint", results_url |-> u,
                    max_urls |-> n, env |-> e, entered |-> r.entered,
                    engine |-> r.engine, out |-> r.out, seen |-> r.seen,
                    trace |-> r.trace,
                    status |-> IF ~r.out.raised THEN 200
                               ELSE IF r.out.exc = "HTTPException400" THEN 400
                               ELSE 500]
    /\ nops' = 1
    /\ UNCHANGED <<requests, Page, pages, card_loop, temp_uploads>>
    /\ UNCHANGED <<objs, active_sessions>>

NextEngine == UploadImage \/ UploadImageByPath \/ ExtractUrls \/ ExtractUrlsEndpoint

SpecEngine == Init /\ [][NextEngine]_vars

\* a call that was made runs to its end: the handler is a coroutine the
\* event loop keeps scheduling, and every primitive it awaits returns
SpecEngineFair == SpecEngine /\ WF_vars(NextEngine)

-----------------------------------------------------------------------------
(* The session registry: handlers over active_sessions *)

\* uuid4: an id no instance has had
FreshId == CHOOSE i \in SessionIds :
              ~objs[i].created /\ \A j \in SessionIds : j < i => objs[j].created

create_browser_session_RegisterFirst(user_data_dir, outcome) ==
    LET s == start(BrowserAutomation_new(user_data_dir), outcome)
    IN [obj |-> s.obj, store |-> TRUE,
        out |-> IF s.raised THEN Raised("StartError", s.calls)
                ELSE Returned(NoValue, s.calls)]

\* the body of create_browser_session (lines 204-230): construct, start,
\* and only then store; an exception of start() leaves the dict as it was
create_browser_session(user_data_dir, outcome) ==
    LET s == start(BrowserAutomation_new(user_data_dir), outcome)
    IN [obj |-> s.obj, store |-> ~s.raised,
        out |-> IF s.raised THEN Raised("StartError", s.calls)
                ELSE Returned(NoValue, s.calls)]

\* POST /automation/create-session
CreateSession ==
    /\ nops < MaxOps
    /\ \E i \in SessionIds : ~objs[i].created
    /\ \E user_data_dir \in UserDataDirArgs, outcome \in StartOutcomes :
         \E r \in {create_browser_session(user_data_dir, outcome)} :
           /\ objs' = [objs EXCEPT ![FreshId] = r.obj]
           /\ active_sessions' = IF r.store THEN active_sessions \cup {FreshId}
                                 ELSE active_sessions
           /\ last' = [op |-> "create_browser_session", id |-> FreshId,
                       before |-> NoObj, registered |-> FALSE,
                       sessions_before |-> active_sessions,
                       raised |-> r.out.raised, calls |-> r.out.calls,
                       status |-> IF r.out.raised THEN 500 ELSE 200]
    /\ nops' = nops + 1
    /\ UNCHANGED <<requests, Page, pages, card_loop, temp_uploads>>

UploadFiles == {[type_ok |-> FALSE, size |-> 2 * MB]}
               \cup {[type_ok |-> TRUE, size |-> n] : n \in {2 * MB, 11 * MB}}

upload_image_with_session_NoLookup(id, file, e) ==
    IF ~file.type_ok THEN Raised("HTTPException400", <<>>)
    ELSE LET m == LensoAutomation_upload_image_to_lenso(
                    [exists |-> TRUE, size |-> file.size], e)
         IN upload_response(
              [m EXCEPT !.calls = Append(@, "get_search_results_info")])

\* the body of upload_image_with_session (lines 250-306): session lookup,
\* content type, then the method on the stored instance, the metadata query
\* and result.get(...)
upload_image_with_session(id, file, e) ==
    IF id \notin active_sessions THEN Raised("HTTPException404", <<>>)
    ELSE IF ~file.type_ok THEN Raised("HTTPException400", <<>>)
    ELSE LET m == LensoAutomation_upload_image_to_lenso(
                    [exists |-> TRUE, size |-> file.size], e)
         IN upload_response(
              [m EXCEPT !.calls = Append(@, "get_search_results_info")])

\* POST /automation/session/{session_id}/upload-image
UploadImageWithSession ==
    /\ nops < MaxOps
    /\ \E id \in SessionIds, file \in UploadFiles, e \in SessionUploadEnvs :
         \E m \in {upload_image_with_session(id, file, e)} :
           last' = [op |-> "upload_image_with_session", id |-> id,
                    file |-> file,
                    before |-> objs[id], registered |-> id \in active_sessions,
                    raised |-> m.raised, calls |-> m.calls,
                    status |-> IF ~m.raised THEN 200
                               ELSE IF m.exc = "HTTPException404" THEN 404
                               ELSE IF m.exc = "HTTPException400" THEN 400
                               ELSE 500]
    /\ nops' = nops + 1
    /\ UNCHANGED <<requests, Page, pages, card_loop, temp_uploads>>
    /\ UNCHANGED <<objs, active_sessions>>

close_browser_session_RemoveFirst(id, fault) ==
    IF id \notin active_sessions
    THEN [out |-> Raised("HTTPException404", <<>>), obj |-> objs[id],
          remove |-> FALSE]
    ELSE LET c == close(objs[id], fault)
         IN [out |-> IF c.raised THEN Raised("CloseError", c.calls)
                     ELSE Returned(NoValue, c.calls),
             obj |-> c.obj, remove |-> TRUE]

close_browser_session_NoLookup(id, fault) ==
    LET c == close(objs[id], fault)
    IN [out |-> IF c.raised THEN Raised("CloseError", c.calls)
                ELSE Returned(NoValue, c.calls),
        obj |-> c.obj, remove |-> ~c.raised]

close_browser_session_KeepEntry(id, fault) ==
    IF id \notin active_sessions
    THEN [out |-> Raised("HTTPException404", <<>>), obj |-> objs[id],
          remove |-> FALSE]
    ELSE LET c == close(objs[id], fault)
         IN [out |-> IF c.raised THEN Raised("CloseError", c.calls)
                     ELSE Returned(NoValue, c.calls),
             obj |-> c.obj, remove |-> FALSE]

\* the body of close_browser_session (lines 320-346)
close_browser_session(id, fault) ==
    IF id \notin active_sessions
    THEN [out |-> Raised("HTTPException404", <<>>), obj |-> objs[id],
          remove |-> FALSE]
    ELSE LET c == close(objs[id], fault)
         IN [out |-> IF c.raised THEN Raised("CloseError", c.calls)
                     ELSE Returned(NoValue, c.calls),
             obj |-> c.obj, remove |-> ~c.raised]

\* DELETE /automation/session/{session_id}
CloseSession ==
    /\ nops < MaxOps
    /\ \E id \in SessionIds, fault \in CloseFaults :
         \E r \in {close_browser_session(id, fault)} :
           /\ objs' = [objs EXCEPT ![id] = r.obj]
           /\ active_sessions' = IF r.remove THEN active_sessions \ {id}
                                 ELSE active_sessions
           /\ last' = [op |-> "close_browser_session", id |-> id,
                       fault |-> fault,
                       before |-> objs[id], registered |-> id \in active_sessions,
                       raised |-> r.out.raised, calls |-> r.out.calls,
                       status |-> IF ~r.out.raised THEN 200
                                  ELSE IF r.out.exc = "HTTPException404" THEN 404
                                  ELSE 500]
    /\ nops' = nops + 1
    /\ UNCHANGED <<requests, Page, pages, card_loop, temp_uploads>>

\* the body of list_active_sessions (line 357): the keys of the dict
list_active_sessions == active_sessions

\* GET /automation/sessions
ListSessions ==
    /\ nops < MaxOps
    /\ last' = [op |-> "list_active_sessions", ids |-> list_active_sessions,
                status |-> 200]
    /\ nops' = nops + 1
    /\ UNCHANGED <<objs, active_sessions, requests, Page, pages, card_loop,
                   temp_uploads>>

Next ==
    CreateSession \/ UploadImageWithSession \/ CloseSession \/ ListSessions

Spec == Init /\ [][Next]_vars

-----------------------------------------------------------------------------
(* Session requests handled concurrently: a handler runs up to an await,    *)
(* and the handlers of other requests run before it goes on.                *)

\* upload_image_with_session up to "await file.read()" (lines 250-273): the
\* lookup, and the instance taken from the dict
upload_arrive(id) ==
    IF id \notin active_sessions
    THEN [op |-> "upload", id |-> id, pc |-> "done", status |-> 404]
    ELSE [op |-> "upload", id |-> id, pc |-> "reading", status |-> 0]

\* POST /automation/session/{session_id}/upload-image arrives
UploadArrive ==
    \E r \in ReqIds, id \in SessionIds :
      /\ requests[r].pc = "idle"
      /\ requests' = [requests EXCEPT ![r] = upload_arrive(id)]
      /\ UNCHANGED <<objs, active_sessions, last, nops, Page, pages,
                     card_loop, temp_uploads>>

\* line 278: the file is read and saved; the method is called on the
\* instance taken at the lookup and runs up to its first await
UploadCallEngine ==
    \E r \in ReqIds :
      /\ requests[r].pc = "reading"
      /\ requests' = [requests EXCEPT ![r].pc = "engine"]
      /\ UNCHANGED <<objs, active_sessions, last, nops, Page, pages,
                     card_loop, temp_uploads>>

\* lines 284-296: the method has returned; the response is built from it
UploadReturn ==
    \E r \in ReqIds, result_is_dict \in BOOLEAN :
      /\ requests[r].pc = "engine"
      /\ requests' = [requests EXCEPT
                        ![r].pc = "done",
                        ![r].status = IF result_is_dict THEN 200 ELSE 500]
      /\ UNCHANGED <<objs, active_sessions, last, nops, Page, pages,
                     card_loop, temp_uploads>>

\* close_browser_session up to the first await of close() (lines 320-329,
\* 68-69): the lookup, and context.close() issued
close_arrive(id, fault) ==
    IF id \notin active_sessions
    THEN [req |-> [op |-> "close", id |-> id, pc |-> "done", status |-> 404],
          obj |-> objs[id]]
    ELSE LET st == release([obj |-> objs[id], raised |-> FALSE, calls |-> <<>>],
                           "context", "context.close", fault)
         IN [req |-> [op |-> "close", id |-> id,
                      pc |-> IF st.raised THEN "done" ELSE "closing",
                      status |-> IF st.raised THEN 500 ELSE 0],
             obj |-> st.obj]

\* DELETE /automation/session/{session_id} arrives
CloseArrive ==
    \E r \in ReqIds, id \in SessionIds, fault \in {"none", "context"} :
      /\ requests[r].pc = "idle"
      /\ \E a \in {close_arrive(id, fault)} :
           /\ requests' = [requests EXCEPT ![r] = a.req]
           /\ objs' = [objs EXCEPT ![id] = a.obj]
      /\ UNCHANGED <<active_sessions, last, nops, Page, pages, card_loop,
                     temp_uploads>>

\* the rest of close() (lines 70-74), then "del active_sessions[session_id]"
\* (line 332), a KeyError when the key is gone
close_return(id, fault) ==
    LET st == closed_mark(
                release(release([obj |-> objs[id], raised |-> FALSE,
                                 calls |-> <<>>],
                                "browser", "browser.close", fault),
                        "playwright", "playwright.stop", fault))
    IN [obj |-> st.obj,
        remove |-> ~st.raised /\ id \in active_sessions,
        status |-> IF st.raised THEN 500
                   ELSE IF id \notin active_sessions THEN 500
                   ELSE 200]

\* close() returns to the handler of the DELETE
CloseReturn ==
    \E r \in ReqIds, fault \in {"none", "playwright"} :
      /\ requests[r].pc = "closing"
      /\ \E c \in {close_return(requests[r].id, fault)} :
           /\ objs' = [objs EXCEPT ![requests[r].id] = c.obj]
           /\ active_sessions' = IF c.remove
                                 THEN active_sessions \ {requests[r].id}
                                 ELSE active_sessions
           /\ requests' = [requests EXCEPT ![r].pc = "done",
                                           ![r].status = c.status]
      /\ UNCHANGED <<last, nops, Page, pages, card_loop, temp_uploads>>

NextConcurrent ==
    \/ CreateSession
    \/ UploadArrive \/ UploadCallEngine \/ UploadReturn
    \/ CloseArrive \/ CloseReturn

SpecConcurrent == Init /\ [][NextConcurrent]_vars

-----------------------------------------------------------------------------
(* A BrowserAutomation instance used directly through its methods *)

\* LensoAutomation(...)
Construct ==
    /\ nops < MaxOps
    /\ \E i \in SessionIds : ~objs[i].created
    /\ objs' = [objs EXCEPT ![FreshId] = BrowserAutomation_init]
    /\ last' = [op |-> "init", id |-> FreshId, before |-> NoObj,
                raised |-> FALSE, calls |-> <<>>]
    /\ nops' = nops + 1
    /\ UNCHANGED <<requests, Page, pages, card_loop, temp_uploads>>
    /\ UNCHANGED active_sessions

\* await automation.start(), on an instance not started yet
Start ==
    /\ nops < MaxOps
    /\ \E id \in SessionIds, outcome \in StartOutcomes :
         /\ objs[id].created /\ ~objs[id].playwright
         /\ \E s \in {start(objs[id], outcome)} :
              /\ objs' = [objs EXCEPT ![id] = s.obj]
              /\ last' = [op |-> "start", id |-> id, before |-> objs[id],
                          raised |-> s.raised, calls |-> s.calls]
    /\ nops' = nops + 1
    /\ UNCHANGED <<requests, Page, pages, card_loop, temp_uploads>>
    /\ UNCHANGED active_sessions

\* await automation.close()
Close ==
    /\ nops < MaxOps
    /\ \E id \in SessionIds, fault \in CloseFaults :
         /\ objs[id].created
         /\ \E c \in {close(objs[id], fault)} :
              /\ objs' = [objs EXCEPT ![id] = c.obj]
              /\ last' = [op |-> "close", id |-> id, before |-> objs[id],
                          raised |-> c.raised, calls |-> c.calls]
    /\ nops' = nops + 1
    /\ UNCHANGED <<requests, Page, pages, card_loop, temp_uploads>>
    /\ UNCHANGED active_sessions

\* one primitive called on an instance: before start() there is no
\* self.page; after it the page answers as it likes
CallPrimitive ==
    /\ nops < MaxOps
    /\ \E id \in SessionIds, name \in PrimitiveNames, a \in PageAnswers,
          srcs \in {<<>>, <<SrcProxy>>, <<<<>>, SrcOther>>},
          text \in {"", "t"} :
         /\ objs[id].created
         /\ (a = "unstarted") <=> ~objs[id].page
         /\ last' = [op |-> "primitive", id |-> id, name |-> name,
                     answer |-> a, srcs |-> srcs, text |-> text,
                     out |-> primitive(name, a, srcs, text)]
    /\ nops' = nops + 1
    /\ UNCHANGED <<objs, active_sessions, requests, Page, pages, card_loop,
                   temp_uploads>>

NextObject == Construct \/ Start \/ Close \/ CallPrimitive

SpecObject == Init /\ [][NextObject]_vars

-----------------------------------------------------------------------------
(* The routines of a started instance on their own: one card opened on a  *)
(* results page, the cookie banner, the consent modal                     *)

\* await self._process_result_card(card, idx, total)
ProcessResultCard ==
    /\ nops = 0
    /\ \E site \in CardSites :
         \E r \in {process_result_card(site)} :
           last' = [op |-> "process_result_card", site |-> site,
                    ret |-> r.ret, calls |-> r.calls]
    /\ nops' = 1
    /\ UNCHANGED <<requests, Page, pages, card_loop, temp_uploads>>
    /\ UNCHANGED <<objs, active_sessions>>

\* await self.handle_cookie_consent(), on a started instance
HandleCookieConsent ==
    /\ nops = 0
    /\ \E c \in CookieEnvs :
         last' = [op |-> "handle_cookie_consent", env |-> c, raised |-> FALSE,
                  calls |-> handle_cookie_consent(c)]
    /\ nops' = 1
    /\ UNCHANGED <<objs, active_sessions, requests, Page, pages, card_loop,
                   temp_uploads>>

\* await self.handle_privacy_consent(), on a started instance
HandlePrivacyConsent ==
    /\ nops = 0
    /\ \E c \in ConsentEnvs :
         last' = [op |-> "handle_privacy_consent", env |-> c, raised |-> FALSE,
                  calls |-> handle_privacy_consent(c)]
    /\ nops' = 1
    /\ UNCHANGED <<objs, active_sessions, requests, Page, pages, card_loop,
                   temp_uploads>>

NextCard == ProcessResultCard \/ HandleCookieConsent \/ HandlePrivacyConsent

SpecCard == Init /\ [][NextCard]_vars

-----------------------------------------------------------------------------
(* Vocabulary of the properties *)

IsUploadOp == last.op \in {"uploadImage", "upload_image_by_path"}
IsExtractOp == last.op \in {"extractUrls", "extract_urls_endpoint"}

\* the file is missing or larger than 10MB
Rejected(image) == ~image.exists \/ image.size > MaxFileMB * MB

\* the browser starts and closes without error
DriverBehaves == last.env.start = "ok" /\ last.env.close_fault = "none"

LaunchCalls == {"async_playwright.start", "launch_persistent_context"}
NavigationCalls == {"goto", "wait_for_load_state"}
ScreenshotCalls == {"screenshot:lenso_results.png", "screenshot:lenso_error.png",
                    "screenshot:no_results_container.png",
                    "screenshot:no_results_error.png",
                    "screenshot:collection_error.png",
                    "screenshot:extract_results.png",
                    "screenshot:extract_error.png"}

Occurs(calls, set) == \E i \in 1..Len(calls) : calls[i] \in set

\* number of cards on the grid, and the place of card <<c, r>> when the
\* columns are read left to right and each column top to bottom
RECURSIVE CardsBefore(_, _)
CardsBefore(grid, c) ==
    IF c <= 1 THEN 0 ELSE CardsBefore(grid, c - 1) + Len(grid[c - 1])
CardCount(grid) == CardsBefore(grid, Len(grid) + 1)
PlaceOf(grid, id) == CardsBefore(grid, id[1]) + id[2]

-----------------------------------------------------------------------------
(* C1..C10 *)

\* C1: whenever uploadImage returns a result record, count equals the number
\* of image_urls and every returned URL contains both "api" and "lenso.ai",
\* whichever selector produced the candidates.
C1_ReturnedUrlsPassFilter ==
    (IsUploadOp /\ last.engine.ret.kind = "dict") =>
        LET d == last.engine.ret.value IN
        /\ d.count = Len(d.image_urls)
        /\ \A i \in 1..Len(d.image_urls) :
             /\ Contains(d.image_urls[i], STR_api)
             /\ Contains(d.image_urls[i], STR_lenso_ai)

\* a non-empty result obtained through the looser selector from candidates
\* of which one lacks the domain marker
C1_Witness ==
    /\ IsUploadOp /\ last.engine.ret.kind = "dict"
    /\ Len(last.engine.ret.value.image_urls) >= 1
    /\ last.env.page.specific = <<>>
    /\ \E i \in 1..Len(last.env.page.loose) : last.env.page.loose[i] = SrcOther

\* C2: for max_urls = n >= 0 and a cards on the page, exactly the first
\* min(n, a) cards in enumeration order are handed to the per-card routine,
\* and at most min(n, a) urls are returned.
C2_ProcessesFirstMinCards ==
    (IsExtractOp /\ last.entered /\ last.max_urls >= 0) =>
        LET a == CardCount(last.env.grid)
            k == Min(last.max_urls, a)
        IN /\ Len(last.seen) = k
           /\ \A i \in 1..Len(last.seen) : PlaceOf(last.env.grid, last.seen[i]) = i
           /\ last.engine.ret.kind = "dict"
           /\ Len(last.engine.ret.value.urls) <= k

\* more cards than max_urls, two columns, and one processed card dropped
C2_Witness ==
    /\ IsExtractOp /\ last.entered
    /\ last.max_urls = 2 /\ CardCount(last.env.grid) > 2
    /\ Len(last.seen) = 2 /\ last.seen[2][1] = 2
    /\ Len(last.engine.ret.value.urls) = 1

\* C3 (as claimed): an upload of a missing or oversized file launches no
\* browser, issues no navigation and takes no screenshot.
C3_RejectionBeforeBrowser ==
    (IsUploadOp /\ Rejected(last.image) /\ DriverBehaves) =>
        ~Occurs(last.out.calls, LaunchCalls \cup NavigationCalls \cup ScreenshotCalls)

\* C4 (as claimed): a missing or oversized file ends in FileNotFoundError or
\* ValueError at the caller, 404 or 400 at the API.
C4_ValidationErrorSurfaced ==
    (IsUploadOp /\ Rejected(last.image) /\ DriverBehaves) =>
        IF last.op = "uploadImage"
        THEN last.out.raised /\ last.out.exc \in {"FileNotFoundError", "ValueError"}
        ELSE last.status \in {400, 404}

\* the operation got as far as navigate_to, and goto failed
NavigationFailed ==
    /\ IsUploadOp \/ IsExtractOp
    /\ last.entered
    /\ IsUploadOp => ~Rejected(last.image)
    /\ ~last.env.goto_ok

C6_CloseTwice ==
    last.op = "close_browser_session" =>
        /\ (last.registered /\ last.fault = "none") =>
              last.status = 200 /\ last.id \notin active_sessions
        /\ last.before.closed =>
              /\ last.status = 404
              /\ last.calls = <<>>
              /\ objs[last.id] = last.before

C6_Witness ==
    /\ last.op = "close_browser_session"
    /\ last.before.closed /\ last.before.closes.context = 1
    /\ last.status = 404

\* C7 (as claimed): a close() after a completed close() issues no release
\* call and raises nothing.
C7_SecondCloseNoOp ==
    (last.op = "close" /\ last.before.closed) =>
        /\ last.calls = <<>>
        /\ ~last.raised
        /\ objs[last.id].closes = last.before.closes

ReleaseRank(call) ==
    IF call = "browser.close" THEN 1
    ELSE IF call = "context.close" THEN 2
    ELSE 3

HandleOf(call) ==
    IF call = "browser.close" THEN "browser"
    ELSE IF call = "context.close" THEN "context"
    ELSE "playwright"

C9_AlwaysUploadResult ==
    (IsUploadOp /\ last.entered /\ DriverBehaves) =>
        /\ last.engine.ret.kind = "dict"
        /\ DOMAIN last.engine.ret.value = {"image_urls", "search_url", "count"}
        /\ last.engine.ret.value.count = Len(last.engine.ret.value.image_urls)

\* C10 (as claimed): whatever extractUrls returns has count equal to the
\* number of urls and results_url equal to the URL passed in.
C10_AlwaysExtractionResult ==
    (IsExtractOp /\ last.entered /\ DriverBehaves) =>
        /\ last.engine.ret.kind = "dict"
        /\ last.engine.ret.value.count = Len(last.engine.ret.value.urls)
        /\ "results_url" \in DOMAIN last.engine.ret.value
        /\ last.engine.ret.value.results_url = last.results_url

-----------------------------------------------------------------------------
(* C11..C20 *)

IsCardOp == last.op = "process_result_card"

\* the card opened a modal that holds the results list
ModalListed == IsCardOp /\ last.site.click_ok /\ last.site.settle_ok /\ last.site.list

\* the routine got as far as the first result entry
ResultReached == ModalListed /\ last.site.result

\* number of occurrences of a call
RECURSIVE CountOf(_, _)
CountOf(calls, c) ==
    IF calls = <<>> THEN 0
    ELSE (IF Head(calls) = c THEN 1 ELSE 0) + CountOf(Tail(calls), c)

\* position of the first occurrence of a call, 0 when there is none
FirstOf(calls, c) ==
    IF \E i \in 1..Len(calls) : calls[i] = c
    THEN CHOOSE i \in 1..Len(calls) :
           calls[i] = c /\ \A j \in 1..(i - 1) : calls[j] # c
    ELSE 0

\* C11: a record returned for a card has the four fields domain, title,
\* image_url and url, and its url is the URL read from the tab that opened
\* after the globe click; a card whose globe click opens no tab gives None,
\* never a record without url.
C11_RecordComplete ==
    IsCardOp =>
        /\ last.ret.kind \in {"dict", "none"}
        /\ last.ret.kind = "dict" =>
             /\ DOMAIN last.ret.value = {"domain", "title", "image_url", "url"}
             /\ last.site.globe.kind = "tab"
             /\ last.ret.value.url = last.site.globe.tab_url
             /\ last.ret.value.url # ""
             /\ FirstOf(last.calls, "globe.click") > 0
             /\ FirstOf(last.calls, "globe.click")
                  < FirstOf(last.calls, "new_page.wait_for_load_state")
        /\ last.site.globe.kind # "tab" => last.ret = NoValue

\* a tab opened on a URL other than the usual destination, and a record came
C11_Witness ==
    /\ IsCardOp /\ last.ret.kind = "dict"
    /\ last.site.globe.tab_url = BlankUrl
    /\ last.ret.value.url = BlankUrl

\* a card whose globe click opened no tab gave None
C11_WitnessNoTab ==
    /\ ResultReached /\ last.site.thumb = "src"
    /\ last.site.globe.kind = "no_tab"
    /\ last.ret = NoValue
    /\ FirstOf(last.calls, "globe.click") > 0

\* C12 (as claimed): once the first result entry is found and its globe
\* button opens a tab, the card is never discarded for a missing thumbnail,
\* domain or title: each of the three fields is "Unknown" when missing.
C12_FallbackUnknown ==
    (ResultReached /\ last.site.escape_ok
       /\ last.site.globe.kind = "tab" /\ last.site.globe.tab_url # "") =>
        /\ last.ret.kind = "dict"
        /\ last.site.thumb # "src" => last.ret.value.image_url = "Unknown"
        /\ last.site.domain # "text" => last.ret.value.domain = "Unknown"
        /\ last.site.title # "text" => last.ret.value.title = "Unknown"

\* C12 (amended): domain and title are "Unknown" when their element is
\* missing and the element's text, even empty, when it exists; the thumbnail
\* has no fallback: without the thumbnail element or without its src the
\* card is discarded (None) before the globe button is touched.
C12_FallbackDomainTitleOnly ==
    (ResultReached /\ last.site.escape_ok
       /\ last.site.globe.kind = "tab" /\ last.site.globe.tab_url # "") =>
        /\ last.site.thumb = "src" =>
             /\ last.ret.kind = "dict"
             /\ last.ret.value.image_url = ThumbSrc
             /\ last.ret.value.domain =
                  (IF last.site.domain = "absent" THEN "Unknown"
                   ELSE IF last.site.domain = "empty" THEN "" ELSE DomainText)
             /\ last.ret.value.title =
                  (IF last.site.title = "absent" THEN "Unknown"
                   ELSE IF last.site.title = "empty" THEN "" ELSE TitleText)
        /\ last.site.thumb # "src" =>
             /\ last.ret = NoValue
             /\ FirstOf(last.calls, "globe.click") = 0

\* a record with both placeholders, and a discarded card without thumbnail
C12_Witness ==
    /\ ResultReached /\ last.ret.kind = "dict"
    /\ last.site.domain = "absent" /\ last.site.title = "absent"
    /\ last.ret.value.domain = "Unknown" /\ last.ret.value.title = "Unknown"

C12_WitnessDiscarded ==
    /\ ResultReached /\ last.site.escape_ok
    /\ last.site.globe.kind = "tab" /\ last.site.globe.tab_url = DestUrl
    /\ last.site.thumb = "absent"
    /\ last.ret = NoValue

\* C13: in a modal that holds the results list, the list is clicked at most
\* once, and exactly when its class was read and contains "locked"; whatever
\* the unlock did (nothing, unlocked, still locked, raised), the first result
\* entry is looked up next.
C13_UnlockOnceThenProceed ==
    ModalListed =>
        LET locked == /\ last.site.lock.fault # "attr"
                      /\ Contains(last.site.lock.cls1, STR_locked)
            q == FirstOf(last.calls, "list.query:div.result")
        IN /\ CountOf(last.calls, "list.click") = (IF locked THEN 1 ELSE 0)
           /\ q > 0
           /\ CountOf(last.calls, "list.query:div.result") = 1
           /\ FirstOf(last.calls, "list.click") < q
           /\ FirstOf(last.calls, "list.get_attribute:class") < q
           /\ last.site.result =>
                FirstOf(last.calls, "result.query:.image-thumbnail img") = q + 1

\* the list stayed locked after the click and a record was still extracted
C13_Witness ==
    /\ ModalListed
    /\ last.site.lock.cls1 = ClsLocked /\ last.site.lock.cls2 = ClsLocked
    /\ last.site.lock.fault = "none"
    /\ CountOf(last.calls, "list.click") = 1
    /\ last.ret.kind = "dict"

\* the unlock click itself raised and the first result was still looked up
C13_WitnessUnlockFailed ==
    /\ ModalListed /\ last.site.lock.fault = "click"
    /\ FirstOf(last.calls, "list.query:div.result") > 0

\* the uploadImage run got into the method (the browser started)
UploadEntered == IsUploadOp /\ last.entered

ConsentCheck == "wait_for_element:div.manage-consents-modal"
CollectStart == "wait_for_element:div.search-results"
InputAttempt == "wait_for_selector:input"
DragClick == "click:drag-area"

C14_WitnessPremium ==
    /\ UploadEntered /\ last.engine.ret.kind = "dict"
    /\ ~last.env.consent_modal
    /\ CountOf(last.engine.calls, "handle_privacy_consent") = 0
    /\ CountOf(last.engine.calls, CollectStart) = 1

\* C15 (as claimed): every upload that has navigated takes a screenshot
\* before it returns.
C15_AlwaysScreenshot ==
    (UploadEntered /\ Occurs(last.engine.calls, NavigationCalls)) =>
        Occurs(last.engine.calls, ScreenshotCalls)

C18_WitnessRetry ==
    /\ UploadEntered
    /\ CountOf(last.engine.calls, InputAttempt) = 2
    /\ last.engine.ret.kind = "dict"

\* the extraction got as far as the loop over the cards
LoopReached ==
    /\ IsExtractOp /\ last.entered
    /\ last.engine.ret.kind = "dict"
    /\ "results_url" \in DOMAIN last.engine.ret.value

RECURSIVE NonNull(_)
\* the non-None results of the cards, in card order
NonNull(trace) ==
    IF trace = <<>> THEN <<>>
    ELSE (IF Head(trace).ret.kind = "dict" THEN <<Head(trace).ret>> ELSE <<>>)
         \o NonNull(Tail(trace))

\* C16: whatever happens to one card (its click raises, the settle delay
\* raises, its modal has no results list, no tab opens), every selected card
\* is handed to the per-card routine, in order, and the urls returned are
\* exactly the non-None results in card order.
C16_FailuresIsolated ==
    LoopReached =>
        LET sel == cards_to_process(get_result_cards(last.env.grid).ret,
                                    last.max_urls)
        IN /\ Len(last.trace) = Len(sel)
           /\ \A i \in 1..Len(sel) :
                /\ last.trace[i].id = sel[i].id
                /\ last.trace[i].ret = process_result_card(CardSite(sel[i].kind)).ret
           /\ CountOf(last.engine.calls, "card.click") = Len(sel)
           /\ last.engine.ret.value.urls = NonNull(last.trace)
           /\ last.engine.ret.value.count = Len(NonNull(last.trace))

\* a card that failed with an exception, followed by one that gave a record
C16_Witness ==
    /\ LoopReached /\ Len(last.trace) >= 2
    /\ last.trace[1].kind \in {"click_fails", "settle_fails"}
    /\ last.trace[1].ret = NoValue
    /\ last.trace[2].ret.kind = "dict"
    /\ Len(last.engine.ret.value.urls) = 1

\* C17 (as claimed): for every card whose click opened the modal, Escape is
\* pressed after the click, before the routine returns and so before the
\* next card is clicked.
C17_ModalDismissedBetweenCards ==
    (IsExtractOp /\ last.entered) =>
        \A i \in 1..Len(last.trace) :
            CardSite(last.trace[i].kind).click_ok =>
                FirstOf(last.trace[i].calls, "press:Escape")
                    > FirstOf(last.trace[i].calls, "card.click")

IsCloseSession == last.op = "close_browser_session"

\* C19: a close of a registered session calls close() on it first; when the
\* handler returns success the id is gone from the registry and context and
\* driver have been released; when close() raises the handler answers 500,
\* and the entry, whose removal comes after close(), is still there.
C19_CloseThenRemove ==
    (IsCloseSession /\ last.registered) =>
        /\ last.calls # <<>> /\ last.calls[1] = "context.close"
        /\ last.status \in {200, 500}
        /\ last.status = 200 =>
             /\ last.id \notin active_sessions
             /\ objs[last.id].closed
             /\ objs[last.id].closes.context >= 1
             /\ objs[last.id].closes.playwright >= 1
        /\ last.raised <=> last.fault # "none"
        /\ last.raised =>
             /\ last.status = 500
             /\ last.id \in active_sessions

\* a close that failed on the driver, then a close of the same id that
\* succeeded
C19_Witness ==
    /\ IsCloseSession /\ last.registered
    /\ last.before.closes.context = 1 /\ ~last.before.closed
    /\ last.status = 200
    /\ last.id \notin active_sessions

\* C20: create_browser_session stores the new instance only once its start()
\* has returned; when start() raises the handler answers 500 and the registry
\* is what it was.
C20_RegisterAfterStart ==
    last.op = "create_browser_session" =>
        /\ last.id \notin last.sessions_before
        /\ last.raised =>
             /\ last.status = 500
             /\ active_sessions = last.sessions_before
        /\ ~last.raised =>
             /\ last.status = 200
             /\ active_sessions = last.sessions_before \cup {last.id}
             /\ objs[last.id].playwright /\ objs[last.id].context
             /\ objs[last.id].page
             /\ last.calls = <<"async_playwright.start", "launch_persistent_context">>

\* a start() that failed at the launch, with another session registered
C20_Witness ==
    /\ last.op = "create_browser_session" /\ last.raised
    /\ last.calls = <<"async_playwright.start", "launch_persistent_context">>
    /\ last.sessions_before # {}
    /\ active_sessions = last.sessions_before

-----------------------------------------------------------------------------
(* The pages resource: the table Page seen through /pages/{page_id} *)

\* None as the value of an optional str, kept apart from every name
NoName == "<None>"

\* the bodies a PUT may carry: PageUpdate.name is optional, and
\* model_dump(exclude_unset=True) keeps only the fields the body set
PageUpdates ==
    {[fields |-> {}, name |-> NoName]}
    \cup {[fields |-> {"name"}, name |-> n] : n \in {"A", "B", NoName}}

\* session.get(Page, page_id): the row or None
get_page(db, page_id) == db[page_id].state = "row"

update_page_NoSetattr(db, page_id, page_in) == db

\* update_page(): setattr for every field the body set, then commit
update_page(db, page_id, page_in) ==
    IF "name" \in page_in.fields
    THEN [db EXCEPT ![page_id].name = page_in.name]
    ELSE db

delete_page_NoCommit(db, page_id) == db

\* delete_page(): delete and commit when the row is there
delete_page(db, page_id) ==
    IF get_page(db, page_id)
    THEN [db EXCEPT ![page_id] = [state |-> "deleted", name |-> ""]]
    ELSE db

\* read_page(): 404 when get_page gives None; the response model needs a
\* str name
read_page(db, page_id) ==
    IF ~get_page(db, page_id)
    THEN [status |-> 404, detail |-> "Page not found", id |-> 0, name |-> ""]
    ELSE IF db[page_id].name = NoName
    THEN [status |-> 500, detail |-> "ValidationError", id |-> 0, name |-> ""]
    ELSE [status |-> 200, detail |-> "", id |-> page_id,
          name |-> db[page_id].name]

\* the ids the database may give a new row: the next value of the serial,
\* or one more than the largest id in the table
NewIds ==
    {i \in PageIds : /\ Page[i].state = "unused"
                     /\ \A j \in PageIds : j < i => Page[j].state # "unused"}
    \cup {i \in PageIds : /\ \A j \in PageIds : Page[j].state = "row" => j < i
                          /\ (i = 1 \/ Page[i - 1].state = "row")}

\* POST /pages/
CreatePage ==
    /\ nops < MaxOps
    /\ \E id \in NewIds, name \in {"A", "B"} :
         /\ Page' = [Page EXCEPT ![id] = [state |-> "row", name |-> name]]
         /\ last' = [op |-> "create_page", id |-> id, before |-> Page,
                     status |-> 201, detail |-> "", name |-> name]
    /\ nops' = nops + 1
    /\ UNCHANGED <<objs, active_sessions, requests, pages, card_loop,
                   temp_uploads>>

\* GET /pages/{page_id}
ReadPage ==
    /\ nops < MaxOps
    /\ \E page_id \in PageIds :
         \E r \in {read_page(Page, page_id)} :
           last' = [op |-> "read_page", id |-> page_id, before |-> Page,
                    status |-> r.status, detail |-> r.detail, name |-> r.name]
    /\ nops' = nops + 1
    /\ UNCHANGED <<objs, active_sessions, requests, Page, pages, card_loop,
                   temp_uploads>>

\* PUT /pages/{page_id}: update_page_endpoint
UpdatePage ==
    /\ nops < MaxOps
    /\ \E page_id \in PageIds, page_in \in PageUpdates :
         IF ~get_page(Page, page_id)
         THEN /\ last' = [op |-> "update_page", id |-> page_id,
                          before |-> Page, page_in |-> page_in,
                          status |-> 404, detail |-> "Page not found",
                          name |-> ""]
              /\ UNCHANGED Page
         ELSE \E db \in {update_page(Page, page_id, page_in)} :
                \E r \in {read_page(db, page_id)} :
                  /\ Page' = db
                  /\ last' = [op |-> "update_page", id |-> page_id,
                              before |-> Page, page_in |-> page_in,
                              status |-> r.status, detail |-> r.detail,
                              name |-> r.name]
    /\ nops' = nops + 1
    /\ UNCHANGED <<objs, active_sessions, requests, pages, card_loop,
                   temp_uploads>>

\* DELETE /pages/{page_id}: delete_page_endpoint
DeletePage ==
    /\ nops < MaxOps
    /\ \E page_id \in PageIds :
         IF ~get_page(Page, page_id)
         THEN /\ last' = [op |-> "delete_page", id |-> page_id,
                          before |-> Page, status |-> 404,
                          detail |-> "Page not found", name |-> ""]
              /\ UNCHANGED Page
         ELSE /\ Page' = delete_page(Page, page_id)
              /\ last' = [op |-> "delete_page", id |-> page_id,
                          before |-> Page, status |-> 200,
                          detail |-> "Page deleted successfully", name |-> ""]
    /\ nops' = nops + 1
    /\ UNCHANGED <<objs, active_sessions, requests, pages, card_loop,
                   temp_uploads>>

NextCrud == CreatePage \/ ReadPage \/ UpdatePage \/ DeletePage

SpecCrud == Init /\ [][NextCrud]_vars

-----------------------------------------------------------------------------
(* The tabs of a session while the card loop clicks destination controls:  *)
(* _click_globe_button step by step, with tabs opening when the site opens *)
(* them                                                                    *)

\* lines 483-487: the first page of new_pages that is not in initial_pages
new_page_of(initial_pages, new_pages) ==
    new_pages[CHOOSE k \in 1..Len(new_pages) :
                /\ \A j \in 1..Len(initial_pages) : initial_pages[j] # new_pages[k]
                /\ \A i \in 1..(k - 1) :
                     \E j \in 1..Len(initial_pages) : initial_pages[j] = new_pages[i]]

\* a sequence without its element p
RECURSIVE without(_, _)
without(seq, p) ==
    IF seq = <<>> THEN <<>>
    ELSE (IF Head(seq) = p THEN <<>> ELSE <<Head(seq)>>) \o without(Tail(seq), p)

\* lines 472-475: initial_pages = self.context.pages, then the click, which
\* makes the site open a tab sooner or later, or not at all
GlobeClick ==
    /\ card_loop.pc = "idle" /\ card_loop.card <= MaxCards
    /\ \E opens \in BOOLEAN :
         card_loop' = [card_loop EXCEPT
                         !.pc = "clicked",
                         !.initial_pages = pages,
                         !.pending = IF opens THEN @ \cup {card_loop.card}
                                     ELSE @]
    /\ UNCHANGED <<objs, active_sessions, last, nops, requests, Page, pages,
                   temp_uploads>>

\* the tab of a clicked destination control opens
TabAppears ==
    /\ \E c \in card_loop.pending :
         /\ pages' = Append(pages, c)
         /\ card_loop' = [card_loop EXCEPT !.pending = @ \ {c}]
    /\ UNCHANGED <<objs, active_sessions, last, nops, requests, Page,
                   temp_uploads>>

\* lines 477-503, after wait_for_timeout(1000): new_pages, the comparison of
\* the lengths, the new page, its load, url and close(); the loop then goes
\* on to the next card
GlobeCheck ==
    /\ card_loop.pc = "clicked"
    /\ \E load_ok \in BOOLEAN :
         LET initial_pages == card_loop.initial_pages
             new_pages == pages
         IN IF Len(new_pages) > Len(initial_pages)
            THEN \E new_page \in {new_page_of(initial_pages, new_pages)} :
                   /\ pages' = IF load_ok THEN without(pages, new_page)
                               ELSE pages
                   /\ last' = [op |-> "click_globe_button",
                               card |-> card_loop.card,
                               initial_pages |-> initial_pages,
                               new_page |-> new_page, load_ok |-> load_ok,
                               ret |-> IF load_ok THEN new_page ELSE 0]
            ELSE /\ load_ok
                 /\ pages' = pages
                 /\ last' = [op |-> "click_globe_button",
                             card |-> card_loop.card,
                             initial_pages |-> initial_pages,
                             new_page |-> 0, load_ok |-> TRUE, ret |-> 0]
    /\ card_loop' = [card_loop EXCEPT !.pc = "idle", !.card = @ + 1]
    /\ UNCHANGED <<objs, active_sessions, nops, requests, Page, temp_uploads>>

NextTabs == GlobeClick \/ TabAppears \/ GlobeCheck

SpecTabs == Init /\ [][NextTabs]_vars

-----------------------------------------------------------------------------
(* The temporary files of the two file-upload endpoints, step by step:     *)
(* temp_uploads maps a file name to the request whose content the file     *)
(* temp_uploads/<name> holds                                               *)

FileEndpoints == {"upload_image_file", "upload_image_with_session"}

\* lines 157-162 and 269-275: temp_file_path = Path(temp_dir) / file.filename,
\* opened with "wb" and written with the content of the request
TempSave ==
    \E r \in ReqIds, op \in FileEndpoints, filename \in FileNames :
      /\ requests[r].pc = "idle"
      /\ temp_uploads' = [temp_uploads EXCEPT ![filename] = r]
      /\ requests' = [requests EXCEPT ![r] =
                        [op |-> op, id |-> 0, pc |-> "saved", status |-> 0,
                         filename |-> filename, read |-> NoFile]]
      /\ UNCHANGED <<objs, active_sessions, last, nops, Page, pages, card_loop>>

\* lines 168 and 278: the awaited engine call, which gives the browser the
\* file that is under temp_file_path at that time; with no file there the
\* engine returns [] and the handler fails on result.get
TempEngineRead ==
    \E r \in ReqIds :
      /\ requests[r].pc = "saved"
      /\ requests' = [requests EXCEPT
                        ![r].pc = "uploaded",
                        ![r].read = temp_uploads[requests[r].filename],
                        ![r].status =
                            IF temp_uploads[requests[r].filename] = NoFile
                            THEN 500 ELSE 200]
      /\ UNCHANGED <<objs, active_sessions, last, nops, Page, pages, card_loop,
                     temp_uploads>>

\* cleanup_temp_file (lines 416-428), run as a background task after the
\* response of upload_image_file, with success or with an error; and
\* temp_file_path.unlink() (line 287), which upload_image_with_session
\* reaches when the engine call succeeded and which raises for a missing file
TempCleanup ==
    \E r \in ReqIds :
      /\ requests[r].pc = "uploaded"
      /\ LET unlinks == requests[r].op = "upload_image_file"
                         \/ requests[r].status = 200
             exists == temp_uploads[requests[r].filename] # NoFile
         IN /\ temp_uploads' = IF unlinks
                                THEN [temp_uploads EXCEPT
                                        ![requests[r].filename] = NoFile]
                                ELSE temp_uploads
            /\ requests' = [requests EXCEPT
                              ![r].pc = "done",
                              ![r].status =
                                  IF /\ requests[r].op = "upload_image_with_session"
                                     /\ unlinks /\ ~exists
                                  THEN 500 ELSE @]
      /\ UNCHANGED <<objs, active_sessions, last, nops, Page, pages, card_loop>>

NextTempFiles == TempSave \/ TempEngineRead \/ TempCleanup

SpecTempFiles == Init /\ [][NextTempFiles]_vars

-----------------------------------------------------------------------------
(* C21..C30 *)

\* the request is inside an operation of the instance: the upload method, or
\* close()
Running(r) == requests[r].pc \in {"engine", "closing"}

\* C21 (as claimed): for every session id at most one operation, upload or
\* close, is running on its instance at any time, whatever the interleaving
\* of the requests, and no upload runs on an instance whose close() has
\* begun.
C21_OneOperationPerSession ==
    /\ \A r1, r2 \in ReqIds :
          (r1 # r2 /\ Running(r1) /\ Running(r2))
              => requests[r1].id # requests[r2].id
    /\ \A r \in ReqIds :
          (requests[r].op = "upload" /\ requests[r].pc = "engine")
              => objs[requests[r].id].closes.context = 0

\* the instance is started and no close() has touched it
Live(i) == objs[i].page /\ objs[i].closes.context = 0

\* C22 (as claimed): no two instances that are live at the same time have
\* the same profile directory.
C22_NoSharedProfile ==
    \A i, j \in SessionIds :
        (i # j /\ Live(i) /\ Live(j))
            => objs[i].user_data_dir # objs[j].user_data_dir

\* the value a primitive returns on failure
Sentinel(name) ==
    IF name \in {"upload_file_to_input", "click_element", "wait_for_element"}
    THEN PyBool(FALSE)
    ELSE IF name = "get_all_element_attributes" THEN PyList(<<>>)
    ELSE NoValue

\* C23: a primitive never raises; when the page is missing, the lookup times
\* out or a call on the element raises, it returns its sentinel (False, None
\* or the empty list).
C23_PrimitivesReturnSentinel ==
    last.op = "primitive" =>
        /\ ~last.out.raised
        /\ last.answer \in {"unstarted", "timeout", "act_raises"}
              => last.out.ret = Sentinel(last.name)

\* a click whose element is there and whose click() raises
C23_Witness ==
    /\ last.op = "primitive" /\ last.name = "click_element"
    /\ last.answer = "act_raises"
    /\ last.out.ret = PyBool(FALSE)

\* a primitive called on an instance that was never started
C23_WitnessUnstarted ==
    /\ last.op = "primitive" /\ last.answer = "unstarted"
    /\ last.name = "get_all_element_attributes"
    /\ last.out.ret = PyList(<<>>)

ReleaseCalls == {"context.close", "browser.close", "playwright.stop"}

\* some call of the sequence is a navigation or interaction call on the page
TouchesPage(calls) ==
    \E k \in 1..Len(calls) : calls[k] \notin LaunchCalls \cup ReleaseCalls

C25_AbsenceDegrades ==
    /\ (UploadEntered /\ Occurs(last.engine.calls, {CollectStart})
          /\ ~last.env.page.container)
          => /\ ~last.engine.raised
             /\ last.engine.ret.kind = "dict"
             /\ last.engine.ret.value.image_urls = <<>>
             /\ last.engine.ret.value.count = 0
    /\ (IsExtractOp /\ last.entered
          /\ Occurs(last.engine.calls, {"query:div.grid-col"})
          /\ CardCount(last.env.grid) = 0)
          => /\ ~last.engine.raised
             /\ last.engine.ret = PyDict([urls |-> <<>>, count |-> 0])
    /\ (IsExtractOp /\ last.entered)
          => \A i \in 1..Len(last.trace) :
               last.trace[i].kind = "no_tab"
                 => /\ last.trace[i].ret = NoValue
                    /\ ~last.engine.raised
                    /\ Len(last.trace) =
                         Len(cards_to_process(
                               get_result_cards(last.env.grid).ret,
                               last.max_urls))

\* no results container, though the page holds a result image elsewhere
C25_Witness ==
    /\ UploadEntered /\ Occurs(last.engine.calls, {CollectStart})
    /\ ~last.env.page.container /\ last.env.page.loose # <<>>
    /\ last.engine.ret.kind = "dict" /\ last.engine.ret.value.count = 0

\* a grid whose columns hold no card
C25_WitnessNoCards ==
    /\ IsExtractOp /\ last.entered
    /\ Len(last.env.grid) > 0 /\ CardCount(last.env.grid) = 0
    /\ last.engine.ret = PyDict([urls |-> <<>>, count |-> 0])

\* a card that opened no tab, followed by a card that gave a record
C25_WitnessNoTab ==
    /\ IsExtractOp /\ last.entered /\ Len(last.trace) = 2
    /\ last.trace[1].kind = "no_tab" /\ last.trace[1].ret = NoValue
    /\ last.trace[2].ret.kind = "dict"

\* every page but page_id is as it was before the last request
OthersUnchanged(page_id) ==
    \A j \in PageIds : j # page_id => Page[j] = last.before[j]

\* C26: a DELETE of an existing page answers 200, after it a GET of that id
\* answers 404 and every other page is as before; a DELETE of an id with no
\* page answers 404 "Page not found" and changes nothing.
C26_DeleteThenGone ==
    last.op = "delete_page" =>
        IF get_page(last.before, last.id)
        THEN /\ last.status = 200
             /\ read_page(Page, last.id).status = 404
             /\ OthersUnchanged(last.id)
        ELSE /\ last.status = 404 /\ last.detail = "Page not found"
             /\ Page = last.before

\* one of two pages deleted
C26_Witness ==
    /\ last.op = "delete_page" /\ last.status = 200
    /\ \E j \in PageIds : j # last.id /\ Page[j].state = "row"

\* a DELETE of an id whose page was deleted before
C26_WitnessNotFound ==
    /\ last.op = "delete_page" /\ last.status = 404
    /\ last.before[last.id].state = "deleted"

\* C27: a PUT that supplies a name on an existing page leaves the page with
\* that name under the same id and answers with both, every other page as
\* before; a PUT on an id with no page answers 404 "Page not found" and no
\* page is created or changed.
C27_UpdateSetsName ==
    last.op = "update_page" =>
        IF get_page(last.before, last.id)
        THEN /\ OthersUnchanged(last.id)
             /\ Page[last.id].state = "row"
             /\ ("name" \in last.page_in.fields /\ last.page_in.name # NoName)
                   => /\ Page[last.id].name = last.page_in.name
                      /\ last.status = 200
                      /\ last.name = last.page_in.name
        ELSE /\ last.status = 404 /\ last.detail = "Page not found"
             /\ Page = last.before

\* a page renamed while another page exists
C27_Witness ==
    /\ last.op = "update_page" /\ last.status = 200
    /\ "name" \in last.page_in.fields
    /\ last.before[last.id].name # last.page_in.name
    /\ Page[last.id].name = last.page_in.name
    /\ \E j \in PageIds : j # last.id /\ Page[j].state = "row"

\* a PUT on an id that never had a page
C27_WitnessNotFound ==
    /\ last.op = "update_page" /\ last.status = 404
    /\ last.before[last.id].state = "unused"

\* the click on the button of selector k went through
ClickedAt(k) ==
    /\ last.env[k] \in {"clicked", "clicked_gone"}
    /\ Occurs(last.calls, {CookieClicks[k]})

\* the selectors are looked up in list order, each at most once, a button is
\* clicked only right after its own lookup, at most one click goes through,
\* and nothing is raised
CookieOrder ==
    /\ ~last.raised
    /\ \A k \in 1..Len(CookieLookups) :
         /\ CountOf(last.calls, CookieLookups[k]) <= 1
         /\ CountOf(last.calls, CookieClicks[k]) <= 1
         /\ Occurs(last.calls, {CookieClicks[k]})
              => FirstOf(last.calls, CookieClicks[k])
                   = FirstOf(last.calls, CookieLookups[k]) + 1
         /\ \A j \in 1..(k - 1) :
              Occurs(last.calls, {CookieLookups[k]})
                => /\ Occurs(last.calls, {CookieLookups[j]})
                   /\ FirstOf(last.calls, CookieLookups[j])
                        < FirstOf(last.calls, CookieLookups[k])
    /\ \A j, k \in 1..Len(CookieLookups) : (ClickedAt(j) /\ ClickedAt(k)) => j = k

\* C28 (as claimed): the selectors are tried in list order, at most one click
\* goes through, no later selector is tried after a click that went through,
\* and the handler never raises.
C28_NoSelectorAfterClick ==
    last.op = "handle_cookie_consent" =>
        /\ CookieOrder
        /\ \A j, k \in 1..Len(CookieLookups) :
             (j < k /\ ClickedAt(j)) => ~Occurs(last.calls, {CookieLookups[k]})

\* C28 (amended): the selectors are tried in list order, at most one click
\* goes through, and the handler never raises; no later selector is tried
\* after a click whose settle wait returned, while after a click whose settle
\* wait raised every later selector is still looked up and none is clicked.
C28_CookieConsentOrder ==
    last.op = "handle_cookie_consent" =>
        /\ CookieOrder
        /\ \A j, k \in 1..Len(CookieLookups) :
             /\ (j < k /\ ClickedAt(j) /\ last.env[j] = "clicked")
                   => ~Occurs(last.calls, {CookieLookups[k]})
             /\ (j < k /\ ClickedAt(j) /\ last.env[j] = "clicked_gone")
                   => /\ Occurs(last.calls, {CookieLookups[k]})
                      /\ ~Occurs(last.calls, {CookieClicks[k]})
        /\ (\A k \in 1..Len(CookieLookups) : last.env[k] \in {"timeout", "none"})
              => last.calls = <<"handle_cookie_consent">> \o CookieLookups

\* the third button is clicked after a lookup that timed out and a click
\* that raised; the last two selectors are not tried
C28_Witness ==
    /\ last.op = "handle_cookie_consent"
    /\ last.env[1] = "timeout" /\ last.env[2] = "click_raises"
    /\ last.env[3] = "clicked" /\ last.env[5] = "clicked"
    /\ ClickedAt(3) /\ ~ClickedAt(5)
    /\ ~Occurs(last.calls, {CookieLookups[4], CookieLookups[5]})

\* the page goes away after the first click: the other four are looked up
C28_WitnessGone ==
    /\ last.op = "handle_cookie_consent"
    /\ last.env[1] = "clicked_gone" /\ ClickedAt(1)
    /\ Occurs(last.calls, {CookieLookups[5]})

ClickPrivacy == "js:click:privacy-policy"
ClickFacial == "js:click:facial-search-consent"
ClickPerform == "js:click:button.perfom-search-btn"
ClickVerify == "js:click:button.verify-btn"

\* C29: with the modal present, each of the four controls is clicked at most
\* once; the perform-search button is clicked only when its wait found it,
\* after that wait and after both checkbox clicks, privacy-policy first; the
\* verify button is clicked only after the perform-search click and after its
\* own wait found it.
C29_ConsentClickOrder ==
    (last.op = "handle_privacy_consent" /\ last.env.modal) =>
        LET calls == last.calls
            p1 == FirstOf(calls, ClickPrivacy)
            p2 == FirstOf(calls, ClickFacial)
            p3 == FirstOf(calls, ClickPerform)
            p4 == FirstOf(calls, ClickVerify)
        IN /\ \A c \in {ClickPrivacy, ClickFacial, ClickPerform, ClickVerify} :
                CountOf(calls, c) <= 1
           /\ p2 > 0 => (0 < p1 /\ p1 < p2)
           /\ p3 > 0 =>
                /\ last.env.perform_btn
                /\ 0 < p1 /\ p1 < p2 /\ p2 < p3
                /\ calls[p3 - 1] = "wait_for_element:button.perfom-search-btn"
           /\ p4 > 0 =>
                /\ last.env.verify_btn
                /\ 0 < p3 /\ p3 < p4
                /\ calls[p4 - 1] = "wait_for_element:button.verify-btn"
           /\ ~last.raised

\* all four controls clicked
C29_Witness ==
    /\ last.op = "handle_privacy_consent" /\ last.env.modal
    /\ last.env.gone = 0
    /\ FirstOf(last.calls, ClickPrivacy) > 0
    /\ FirstOf(last.calls, ClickVerify) > FirstOf(last.calls, ClickPerform)
    /\ FirstOf(last.calls, ClickPerform) > FirstOf(last.calls, ClickFacial)

\* the verify button would be there, the perform-search button is not:
\* neither is clicked
C29_WitnessNoPerform ==
    /\ last.op = "handle_privacy_consent" /\ last.env.modal
    /\ last.env.gone = 0 /\ ~last.env.perform_btn /\ last.env.verify_btn
    /\ FirstOf(last.calls, ClickFacial) > 0
    /\ FirstOf(last.calls, ClickPerform) = 0
    /\ FirstOf(last.calls, ClickVerify) = 0

\* C30 (as claimed): in every upload that called the consent handler,
\* whatever happened in the consent flow, the handler is followed by the
\* post-consent wait and one call of collect_result_images, and the method
\* returns its result dict.
C30_ConsentFailureNotFatal ==
    (UploadEntered /\ Occurs(last.engine.calls, {"handle_privacy_consent"})) =>
        /\ ~last.engine.raised
        /\ CountOf(last.engine.calls, CollectStart) = 1
        /\ last.engine.calls[FirstOf(last.engine.calls, CollectStart) - 1]
             = "wait_for_timeout"
        /\ last.engine.ret.kind = "dict"

-----------------------------------------------------------------------------
(* C31..C39 *)

\* C31 (as claimed): a tab that the destination-control routine found is
\* closed before the routine returns, whether or not its load succeeded:
\* after the routine the tab is not among the open tabs.
C31_AuxTabClosed ==
    (last.op = "click_globe_button" /\ last.new_page # 0) =>
        \A k \in 1..Len(pages) : pages[k] # last.new_page

\* C32 (as claimed): the URL the routine returns for a card is the URL of the
\* tab that this card's own click opened, also when the tab of an earlier
\* card opens late.
C32_OwnTabUrl ==
    (last.op = "click_globe_button" /\ last.ret # 0) => last.ret = last.card

\* C33 (as claimed): of two closeSession requests for the same registered id
\* only one gets to call close() on the session: once one of them has
\* returned success, the other is not in the middle of close() on the same
\* instance (it was answered NotFound), so it cannot end in a server error.
C33_ConcurrentCloseOnce ==
    \A r1, r2 \in ReqIds :
       (/\ r1 # r2
        /\ requests[r1].op = "close" /\ requests[r2].op = "close"
        /\ requests[r1].id = requests[r2].id
        /\ requests[r1].pc = "done" /\ requests[r1].status = 200)
           => requests[r2].pc # "closing"

\* the ids that a successful createSession returned (start() succeeded, so
\* the instance has its page) less those whose closeSession succeeded
\* (close() ran to its end)
CreatedNotClosed == {i \in SessionIds : objs[i].page /\ ~objs[i].closed}

\* C34: after any sequence of createSession, uploadImageWithSession,
\* closeSession and listSessions calls the registry holds exactly the ids of
\* the successful creations less the ids of the successful closes, and that
\* is what listSessions returns; uploads, unknown ids, failed creations and
\* failed closes leave it as it was.
C34_ListIsCreatedMinusClosed ==
    /\ active_sessions = CreatedNotClosed
    /\ last.op = "list_active_sessions" => last.ids = CreatedNotClosed
    /\ last.op = "upload_image_with_session"
          => (last.id \in active_sessions) = last.registered
    /\ (last.op = "close_browser_session" /\ last.status # 200)
          => (last.id \in active_sessions) = last.registered
    /\ (last.op = "create_browser_session" /\ last.status # 200)
          => active_sessions = last.sessions_before

\* two sessions were created, one was closed, and the list shows the other
C34_Witness ==
    /\ last.op = "list_active_sessions"
    /\ last.ids # {}
    /\ \E i \in SessionIds : objs[i].closed /\ i \notin last.ids

\* a close failed in the driver and the list still shows the session
C34_WitnessFailedClose ==
    /\ last.op = "list_active_sessions"
    /\ \E i \in last.ids : objs[i].closes.context > 0

\* C35 (as claimed): when start() fails after the driver was started (the
\* launch of the browser with the persistent profile fails), createSession
\* reports the error only after the driver handle that start() acquired has
\* been released.
C35_FailedStartReleasesDriver ==
    (last.op = "create_browser_session" /\ last.raised)
        => (objs[last.id].playwright => objs[last.id].closes.playwright > 0)

\* C36 (as claimed): the upload-with-session endpoint answers a file larger
\* than 10MB (of an accepted type, for a registered session) with a client
\* error and without invoking the engine's upload or anything after it.
C36_OversizeRejectedBeforeEngine ==
    (/\ last.op = "upload_image_with_session"
     /\ last.registered /\ last.file.type_ok
     /\ last.file.size > MaxFileMB * MB)
        => (last.status = 400 /\ last.calls = <<>>)

\* C37 (as claimed): with two file-upload requests in flight, also under
\* the same file name, the temporary file of a request that has yet to
\* upload holds that request's own content (no other request overwrote or
\* deleted it), and the engine upload of every request read its own content.
C37_OwnTempFile ==
    \A r \in ReqIds :
       /\ (requests[r].op \in FileEndpoints /\ requests[r].pc = "saved")
             => temp_uploads[requests[r].filename] = r
       /\ (requests[r].op \in FileEndpoints
           /\ requests[r].pc \in {"uploaded", "done"})
             => requests[r].read = r

\* C38 (as claimed): extractUrls processes at most maxUrls cards for every
\* integer maxUrls: with maxUrls <= 0 no card is opened.
C38_AtMostMaxUrlsCards ==
    (IsExtractOp /\ last.entered) =>
        /\ Len(last.seen) <= Max(last.max_urls, 0)
        /\ Len(last.trace) <= Max(last.max_urls, 0)

\* the call of the one-shot operation has returned, with a value or an error
OperationReturned == nops = 1 /\ (IsUploadOp \/ IsExtractOp)

\* C39 (as claimed): every uploadImage and extractUrls call eventually
\* returns, and when it has, the driver was started and navigation was
\* issued at most once, the file was given to an input at most twice (the
\* one fallback), and the card loop ran at most min(maxUrls, available
\* cards) iterations.
C39_ReturnsWithinBounds ==
    /\ <>OperationReturned
    /\ [](OperationReturned =>
            /\ CountOf(last.out.calls, "async_playwright.start") <= 1
            /\ CountOf(last.out.calls, "goto") <= 1
            /\ CountOf(last.out.calls, "set_input_files") <= 2
            /\ (IsExtractOp /\ last.entered) =>
                  Len(last.trace)
                    <= Max(Min(last.max_urls, CardCount(last.env.grid)), 0))

\* the part of C39 about termination and retries alone: a call that has
\* not returned can take its step, and a call that has returned was one
\* start, one navigation, at most two input attempts and at most one
\* iteration of the card loop per available card
C39_RunsToItsEndNoRetry ==
    /\ nops = 0 => ENABLED <<NextEngine>>_vars
    /\ nops # 0 =>
          /\ OperationReturned
          /\ CountOf(last.out.calls, "async_playwright.start") <= 1
          /\ CountOf(last.out.calls, "goto") <= 1
          /\ CountOf(last.out.calls, "set_input_files") <= 2
          /\ (IsExtractOp /\ last.entered) =>
                Len(last.trace) <= CardCount(last.env.grid)

====
